---- MODULE Spec2Model ----
(***************************************************************************)
(* A model of the json-streamer push parser:                               *)
(*   _Tokenizer -> { _TextAccumulator, _Lexer state machine }              *)
(*              -> JSONStreamer -> ObjectStreamer                          *)
(* Text is a sequence of one-character strings.  A parser instance is a    *)
(* record; every method is an operator from instance to instance, and an   *)
(* exception in flight is the field exc (a raised exception skips the      *)
(* rest of the call, as in Python).                                        *)
(***************************************************************************)
EXTENDS Integers, Sequences, FiniteSets, TLC

(***************************************************************************)
(* Python values carried by events.                                        *)
(***************************************************************************)
PyStr(s) == [t |-> "str", s |-> s]
PyInt(n) == [t |-> "int", n |-> n]
\* a float is an IEEE 754 double: sign * mant * 2^exp, with mant a run of
\* digits that writes an odd whole number below 2^53 and exp from -1074 on
PyFloat(sign, mant, exp) == [t |-> "float", sign |-> sign, mant |-> mant, exp |-> exp]
\* the floats 0.0 (sign 1) and -0.0 (sign -1)
PyZero(sign) == [t |-> "float", sign |-> sign, mant |-> <<>>, exp |-> 0]
\* float of infinite value: inf for sign 1 and -inf for sign -1
PyInf(sign) == [t |-> "float", inf |-> sign]
\* no value: the conversion raises an exception of this type
PyRaises(type) == [t |-> "raises", type |-> type]
PyBool(b) == [t |-> "bool", b |-> b]
PyNone == [t |-> "None"]
PyList(items) == [t |-> "list", items |-> items]
\* a dict is its items <<key, value>> in insertion order
PyDict(items) == [t |-> "dict", items |-> items]
PyTuple(k, v) == [t |-> "tuple", k |-> k, v |-> v]
LiteralType(n) == [t |-> "JSONValueType", name |-> n]

\* dict[k] = v : replaces the value of an existing key in place, else appends
DictSet(d, k, v) ==
    IF \E i \in 1..Len(d.items) : d.items[i][1] = k
    THEN PyDict([i \in 1..Len(d.items) |->
                    IF d.items[i][1] = k THEN <<k, v>> ELSE d.items[i]])
    ELSE PyDict(Append(d.items, <<k, v>>))

ListAppend(l, v) == PyList(Append(l.items, v))

(***************************************************************************)
(* Exceptions.                                                             *)
(***************************************************************************)
NoExc == [type |-> "none", kind |-> "", event |-> "", state |-> "", text |-> <<>>]
Exc(type, kind) == [type |-> type, kind |-> kind, event |-> "", state |-> "", text |-> <<>>]
Raised(p) == p.exc.type # "none"
Raise(p, e) == [p EXCEPT !.exc = e]

Ev(name, args) == [name |-> name, args |-> args]

(***************************************************************************)
(* _Tokenizer                                                              *)
(***************************************************************************)
token_ids == << <<"{", "lbrace">>, <<"}", "rbrace">>, <<"[", "lsquare">>,
                <<"]", "rsquare">>, <<",", "comma">>, <<":", "colon">>,
                <<"\"", "dblquote">>, <<" ", "whitespace">>,
                <<"\n", "newline">>, <<"\\", "backslash">> >>

\* the event the tokenizer fires for character c
TokenName(c) ==
    IF \E i \in 1..Len(token_ids) : token_ids[i][1] = c
    THEN token_ids[CHOOSE i \in 1..Len(token_ids) : token_ids[i][1] = c][2]
    ELSE "char"

TokenNames == {token_ids[i][2] : i \in 1..Len(token_ids)} \cup {"char"}

\* Event.__init__ / State.__init__ : names are upper-cased
Upper(n) ==
    CASE n = "lbrace" -> "LBRACE" [] n = "rbrace" -> "RBRACE"
      [] n = "lsquare" -> "LSQUARE" [] n = "rsquare" -> "RSQUARE"
      [] n = "comma" -> "COMMA" [] n = "colon" -> "COLON"
      [] n = "dblquote" -> "DBLQUOTE" [] n = "whitespace" -> "WHITESPACE"
      [] n = "newline" -> "NEWLINE" [] n = "backslash" -> "BACKSLASH"
      [] n = "char" -> "CHAR" [] n = "start" -> "START"
      [] n = "end" -> "END" [] n = "reset" -> "RESET"
      [] OTHER -> n

(***************************************************************************)
(* _TextAccumulator                                                        *)
(***************************************************************************)
_string_criteria == {"char", "whitespace", "dblquote", "lsquare", "rsqaure",
                     "comma", "colon", "lbrace", "rbrace"}
\* criteria outside strings that also keep the comma
_json_criteria_with_comma == {"char", "whitespace", "dblquote", "comma"}

_json_criteria == {"char", "whitespace", "dblquote"}

\* a listener that decodes an escape: the backslash before an escaped
\* character of the criteria is not kept
AccListener_decodes(p, event_name, payload) ==
    LET toggled == event_name = "dblquote" /\ ~p.escaping
        ss == IF toggled THEN ~p.string_start ELSE p.string_start
        criteria == IF ss THEN _string_criteria ELSE _json_criteria
        q == [p EXCEPT !.string_start = ss]
    IN IF event_name \in criteria
       THEN [q EXCEPT !.acc = p.acc \o <<payload>>, !.escaping = FALSE]
       ELSE IF event_name = "backslash"
            THEN IF p.escaping
                 THEN [q EXCEPT !.acc = p.acc \o <<"\\", "\\">>, !.escaping = FALSE]
                 ELSE [q EXCEPT !.escaping = TRUE]
            ELSE IF p.escaping
                 THEN [q EXCEPT !.acc = p.acc \o <<"\\", payload>>, !.escaping = FALSE]
                 ELSE q

\* _TextAccumulator._listener(event_name, payload) on the instance fields
\* acc (self._), escaping, string_start; _criteria follows string_start
AccListener(p, event_name, payload) ==
    LET toggled == event_name = "dblquote" /\ ~p.escaping
        ss == IF toggled THEN ~p.string_start ELSE p.string_start
        criteria == IF ss THEN _string_criteria ELSE _json_criteria
        q == [p EXCEPT !.string_start = ss]
    IN IF event_name \in criteria
       THEN [q EXCEPT !.acc = (IF p.escaping THEN Append(p.acc, "\\") ELSE p.acc)
                               \o <<payload>>,
                      !.escaping = FALSE]
       ELSE IF event_name = "backslash"
            THEN IF p.escaping
                 THEN [q EXCEPT !.acc = p.acc \o <<"\\", "\\">>, !.escaping = FALSE]
                 ELSE [q EXCEPT !.escaping = TRUE]
            ELSE IF p.escaping
                 THEN [q EXCEPT !.acc = p.acc \o <<"\\", payload>>, !.escaping = FALSE]
                 ELSE q

(***************************************************************************)
(* str helpers                                                             *)
(***************************************************************************)
\* str.isspace() of one character: the characters str.strip() removes.  The
\* set holds every such character up to U+00FF: tab, line feed, vertical
\* tab, form feed, carriage return, U+001C to U+001F, space, U+0085 and
\* U+00A0 (the control characters are written as themselves); the ones
\* above U+00FF (U+1680, U+2000 to U+200A, U+2028, U+2029, U+202F, U+205F,
\* U+3000) cannot be written in a string of this language and are in no
\* text of the model
IsSpace(c) ==
    c \in {"\t", "\n", "", "\f", "\r", "", "", "", "", " ",
           "", " "}

RECURSIVE LStrip(_)
LStrip(s) == IF s # <<>> /\ IsSpace(Head(s)) THEN LStrip(Tail(s)) ELSE s

RECURSIVE RStrip(_)
RStrip(s) == IF s # <<>> /\ IsSpace(s[Len(s)])
             THEN RStrip(SubSeq(s, 1, Len(s) - 1)) ELSE s

\* a strip that leaves the leading whitespace
Strip_trailing_only(s) == RStrip(s)

\* str.strip()
Strip(s) == RStrip(LStrip(s))

\* text[1:-1]
Slice1m1(s) == IF Len(s) <= 2 THEN <<>> ELSE SubSeq(s, 2, Len(s) - 1)

(***************************************************************************)
(* _Lexer._number_pattern  ^[-+]?[0-9]*\.?[0-9]+([eE][-+]?[0-9]+)?$        *)
(***************************************************************************)
Digits == {"0", "1", "2", "3", "4", "5", "6", "7", "8", "9"}
IsDigits(s) == \A i \in 1..Len(s) : s[i] \in Digits
Unsigned(s) == IF s # <<>> /\ s[1] \in {"-", "+"} THEN Tail(s) ELSE s

\* [0-9]*\.?[0-9]+
MatchMantissa(s) ==
    \E i \in 0..Len(s) :
        LET a == SubSeq(s, 1, i)
            r == SubSeq(s, i + 1, Len(s))
        IN /\ IsDigits(a)
           /\ \/ r # <<>> /\ IsDigits(r)
              \/ Len(r) >= 2 /\ r[1] = "." /\ IsDigits(Tail(r))

\* ([eE][-+]?[0-9]+)?
MatchExponent(s) ==
    \/ s = <<>>
    \/ /\ Len(s) >= 2
       /\ s[1] \in {"e", "E"}
       /\ Unsigned(Tail(s)) # <<>>
       /\ IsDigits(Unsigned(Tail(s)))

\* re.fullmatch(_number_pattern, literal)
_number_pattern(s) ==
    LET b == Unsigned(s)
    IN \E j \in 0..Len(b) :
          MatchMantissa(SubSeq(b, 1, j)) /\ MatchExponent(SubSeq(b, j + 1, Len(b)))

DigitVal(c) ==
    CASE c = "0" -> 0 [] c = "1" -> 1 [] c = "2" -> 2 [] c = "3" -> 3
      [] c = "4" -> 4 [] c = "5" -> 5 [] c = "6" -> 6 [] c = "7" -> 7
      [] c = "8" -> 8 [] c = "9" -> 9

RECURSIVE DigitsVal(_)
DigitsVal(s) == IF s = <<>> THEN 0
                ELSE DigitsVal(SubSeq(s, 1, Len(s) - 1)) * 10 + DigitVal(s[Len(s)])

SignOf(s) == IF s # <<>> /\ s[1] = "-" THEN -1 ELSE 1

\* sys.get_int_max_str_digits() of the interpreter: int() of a text with
\* more digits raises ValueError
int_max_str_digits == 4300

\* int(literal) succeeds on an optionally signed run of at most
\* int_max_str_digits digits (the set of texts that match the number pattern
\* has no other integer text)
IntParses(s) ==
    /\ Unsigned(s) # <<>> /\ IsDigits(Unsigned(s))
    /\ Len(Unsigned(s)) <= int_max_str_digits

\* position of the exponent marker of an unsigned number text, past the end
\* when there is none
EPos(b) == IF \E i \in 1..Len(b) : b[i] \in {"e", "E"}
           THEN CHOOSE i \in 1..Len(b) : b[i] \in {"e", "E"} ELSE Len(b) + 1

\* position of the decimal point of a mantissa, past the end when there is none
DPos(mant) == IF \E i \in 1..Len(mant) : mant[i] = "."
              THEN CHOOSE i \in 1..Len(mant) : mant[i] = "." ELSE Len(mant) + 1

\* a run of digits without its leading zeros
StripZeros(d) ==
    IF \A i \in 1..Len(d) : d[i] = "0" THEN <<>>
    ELSE SubSeq(d, CHOOSE i \in 1..Len(d) :
                       d[i] # "0" /\ \A j \in 1..(i - 1) : d[j] = "0", Len(d))

\* digit i of the decimal fraction 0.a
DigitAt(a, i) == IF i <= Len(a) THEN DigitVal(a[i]) ELSE 0

\* the order of the decimal fractions 0.a and 0.b, decided by the first
\* digit in which they differ: -1, 0 or 1
FracCmp(a, b) ==
    LET n == IF Len(a) > Len(b) THEN Len(a) ELSE Len(b)
        D == {i \in 1..n : DigitAt(a, i) # DigitAt(b, i)}
    IN IF D = {} THEN 0
       ELSE IF DigitAt(a, CHOOSE i \in D : \A j \in D : i <= j)
                 < DigitAt(b, CHOOSE i \in D : \A j \in D : i <= j)
       THEN -1 ELSE 1

\* the IEEE 754 double: a decimal of at least 2^1024 - 2^970, the midpoint of
\* the largest double and 2^1024, is rounded to infinity.  The digits of
\* 2^1024 - 2^970 = 0.17976931348623158... * 10^309
DBL_OVERFLOW_EXP == 309
DBL_OVERFLOW == <<
    "1", "7", "9", "7", "6", "9", "3", "1", "3", "4", "8", "6", "2", "3", "1",
    "5", "8", "0", "7", "9", "3", "7", "2", "8", "9", "7", "1", "4", "0", "5",
    "3", "0", "3", "4", "1", "5", "0", "7", "9", "9", "3", "4", "1", "3", "2",
    "7", "1", "0", "0", "3", "7", "8", "2", "6", "9", "3", "6", "1", "7", "3",
    "7", "7", "8", "9", "8", "0", "4", "4", "4", "9", "6", "8", "2", "9", "2",
    "7", "6", "4", "7", "5", "0", "9", "4", "6", "6", "4", "9", "0", "1", "7",
    "9", "7", "7", "5", "8", "7", "2", "0", "7", "0", "9", "6", "3", "3", "0",
    "2", "8", "6", "4", "1", "6", "6", "9", "2", "8", "8", "7", "9", "1", "0",
    "9", "4", "6", "5", "5", "5", "5", "4", "7", "8", "5", "1", "9", "4", "0",
    "4", "0", "2", "6", "3", "0", "6", "5", "7", "4", "8", "8", "6", "7", "1",
    "5", "0", "5", "8", "2", "0", "6", "8", "1", "9", "0", "8", "9", "0", "2",
    "0", "0", "0", "7", "0", "8", "3", "8", "3", "6", "7", "6", "2", "7", "3",
    "8", "5", "4", "8", "4", "5", "8", "1", "7", "7", "1", "1", "5", "3", "1",
    "7", "6", "4", "4", "7", "5", "7", "3", "0", "2", "7", "0", "0", "6", "9",
    "8", "5", "5", "5", "7", "1", "3", "6", "6", "9", "5", "9", "6", "2", "2",
    "8", "4", "2", "9", "1", "4", "8", "1", "9", "8", "6", "0", "8", "3", "4",
    "9", "3", "6", "4", "7", "5", "2", "9", "2", "7", "1", "9", "0", "7", "4",
    "1", "6", "8", "4", "4", "4", "3", "6", "5", "5", "1", "0", "7", "0", "4",
    "3", "4", "2", "7", "1", "1", "5", "5", "9", "6", "9", "9", "5", "0", "8",
    "0", "9", "3", "0", "4", "2", "8", "8", "0", "1", "7", "7", "9", "0", "4",
    "1", "7", "4", "4", "9", "7", "7", "9", "2" >>

\* a decimal of at most 2^-1075, the half of the smallest double above zero,
\* is rounded to zero.  The digits of 2^-1075 = 0.24703282292062327... * 10^-323
DBL_UNDERFLOW_EXP == -323
DBL_UNDERFLOW == <<
    "2", "4", "7", "0", "3", "2", "8", "2", "2", "9", "2", "0", "6", "2", "3",
    "2", "7", "2", "0", "8", "8", "2", "8", "4", "3", "9", "6", "4", "3", "4",
    "1", "1", "0", "6", "8", "6", "1", "8", "2", "5", "2", "9", "9", "0", "1",
    "3", "0", "7", "1", "6", "2", "3", "8", "2", "2", "1", "2", "7", "9", "2",
    "8", "4", "1", "2", "5", "0", "3", "3", "7", "7", "5", "3", "6", "3", "5",
    "1", "0", "4", "3", "7", "5", "9", "3", "2", "6", "4", "9", "9", "1", "8",
    "1", "8", "0", "8", "1", "7", "9", "9", "6", "1", "8", "9", "8", "9", "8",
    "2", "8", "2", "3", "4", "7", "7", "2", "2", "8", "5", "8", "8", "6", "5",
    "4", "6", "3", "3", "2", "8", "3", "5", "5", "1", "7", "7", "9", "6", "9",
    "8", "9", "8", "1", "9", "9", "3", "8", "7", "3", "9", "8", "0", "0", "5",
    "3", "9", "0", "9", "3", "9", "0", "6", "3", "1", "5", "0", "3", "5", "6",
    "5", "9", "5", "1", "5", "5", "7", "0", "2", "2", "6", "3", "9", "2", "2",
    "9", "0", "8", "5", "8", "3", "9", "2", "4", "4", "9", "1", "0", "5", "1",
    "8", "4", "4", "3", "5", "9", "3", "1", "8", "0", "2", "8", "4", "9", "9",
    "3", "6", "5", "3", "6", "1", "5", "2", "5", "0", "0", "3", "1", "9", "3",
    "7", "0", "4", "5", "7", "6", "7", "8", "2", "4", "9", "2", "1", "9", "3",
    "6", "5", "6", "2", "3", "6", "6", "9", "8", "6", "3", "6", "5", "8", "4",
    "8", "0", "7", "5", "7", "0", "0", "1", "5", "8", "5", "7", "6", "9", "2",
    "6", "9", "9", "0", "3", "7", "0", "6", "3", "1", "1", "9", "2", "8", "2",
    "7", "9", "5", "5", "8", "5", "5", "1", "3", "3", "2", "9", "2", "7", "8",
    "3", "4", "3", "3", "8", "4", "0", "9", "3", "5", "1", "9", "7", "8", "0",
    "1", "5", "5", "3", "1", "2", "4", "6", "5", "9", "7", "2", "6", "3", "5",
    "7", "9", "5", "7", "4", "6", "2", "2", "7", "6", "6", "4", "6", "5", "2",
    "7", "2", "8", "2", "7", "2", "2", "0", "0", "5", "6", "3", "7", "4", "0",
    "0", "6", "4", "8", "5", "4", "9", "9", "9", "7", "7", "0", "9", "6", "5",
    "9", "9", "4", "7", "0", "4", "5", "4", "0", "2", "0", "8", "2", "8", "1",
    "6", "6", "2", "2", "6", "2", "3", "7", "8", "5", "7", "3", "9", "3", "4",
    "5", "0", "7", "3", "6", "3", "3", "9", "0", "0", "7", "9", "6", "7", "7",
    "6", "1", "9", "3", "0", "5", "7", "7", "5", "0", "6", "7", "4", "0", "1",
    "7", "6", "3", "2", "4", "6", "7", "3", "6", "0", "0", "9", "6", "8", "9",
    "5", "1", "3", "4", "0", "5", "3", "5", "5", "3", "7", "4", "5", "8", "5",
    "1", "6", "6", "6", "1", "1", "3", "4", "2", "2", "3", "7", "6", "6", "6",
    "7", "8", "6", "0", "4", "1", "6", "2", "1", "5", "9", "6", "8", "0", "4",
    "6", "1", "9", "1", "4", "4", "6", "7", "2", "9", "1", "8", "4", "0", "3",
    "0", "0", "5", "3", "0", "0", "5", "7", "5", "3", "0", "8", "4", "9", "0",
    "4", "8", "7", "6", "5", "3", "9", "1", "7", "1", "1", "3", "8", "6", "5",
    "9", "1", "6", "4", "6", "2", "3", "9", "5", "2", "4", "9", "1", "2", "6",
    "2", "3", "6", "5", "3", "8", "8", "1", "8", "7", "9", "6", "3", "6", "2",
    "3", "9", "3", "7", "3", "2", "8", "0", "4", "2", "3", "8", "9", "1", "0",
    "1", "8", "6", "7", "2", "3", "4", "8", "4", "9", "7", "6", "6", "8", "2",
    "3", "5", "0", "8", "9", "8", "6", "3", "3", "8", "8", "5", "8", "7", "9",
    "2", "5", "6", "2", "8", "3", "0", "2", "7", "5", "5", "9", "9", "5", "6",
    "5", "7", "5", "2", "4", "4", "5", "5", "5", "0", "7", "2", "5", "5", "1",
    "8", "9", "3", "1", "3", "6", "9", "0", "8", "3", "6", "2", "5", "4", "7",
    "7", "9", "1", "8", "6", "9", "4", "8", "6", "6", "7", "9", "9", "4", "9",
    "6", "8", "3", "2", "4", "0", "4", "9", "7", "0", "5", "8", "2", "1", "0",
    "2", "8", "5", "1", "3", "1", "8", "5", "4", "5", "1", "3", "9", "6", "2",
    "1", "3", "8", "3", "7", "7", "2", "2", "8", "2", "6", "1", "4", "5", "4",
    "3", "7", "6", "9", "3", "4", "1", "2", "5", "3", "2", "0", "9", "8", "5",
    "9", "1", "3", "2", "7", "6", "6", "7", "2", "3", "6", "3", "2", "8", "1",
    "2", "5" >>

\* the value of the exponent text of a number of at most nine digits after
\* its leading zeros (empty: 0)
ExpoVal(expo) == SignOf(expo) * DigitsVal(StripZeros(Unsigned(expo)))

\* the exponent text has more than nine digits after its leading zeros:
\* float() takes such an exponent as 11 * 10^8, in absolute value
LongExponent(expo) == Len(StripZeros(Unsigned(expo))) > 9

DigitChars == <<"0", "1", "2", "3", "4", "5", "6", "7", "8", "9">>

(***************************************************************************)
(* Decimal arithmetic of the conversion.  A number is written x, a         *)
(* sequence of digits 0 to 9 (numbers), of which the first w are the whole *)
(* part and the others the fraction.                                       *)
(***************************************************************************)
\* twice x (the first digit of x is below 5): digit i is twice digit i
\* modulo 10, plus one when digit i + 1 is 5 or more
Double(x) ==
    SubSeq([i \in 1..Len(x) |->
               ((2 * x[i]) % 10) + (IF i < Len(x) /\ x[i + 1] >= 5 THEN 1 ELSE 0)],
           1, Len(x))

\* half of x, with one more digit of fraction: digit i is the half of
\* digit i, plus 5 when digit i - 1 is odd
Half(x) ==
    SubSeq([i \in 1..(Len(x) + 1) |->
               (IF i <= Len(x) THEN x[i] \div 2 ELSE 0)
                 + (IF i > 1 /\ (x[i - 1] % 2) = 1 THEN 5 ELSE 0)],
           1, Len(x) + 1)

\* x halved n times
RECURSIVE HalfTimes(_, _)
HalfTimes(x, n) ==
    IF Len(x) = 0 \/ n = 0 THEN x ELSE HalfTimes(Half(x), n - 1)

\* the whole number written by the digits x, plus one
Increment(x) ==
    LET j == CHOOSE i \in 1..Len(x) : x[i] # 9 /\ \A k \in (i + 1)..Len(x) : x[k] = 9
    IN SubSeq([i \in 1..Len(x) |->
                  IF i < j THEN x[i] ELSE IF i = j THEN x[i] + 1 ELSE 0], 1, Len(x))

\* the digits of 2^52, 2^53 and 2^85
TwoTo52 == <<4, 5, 0, 3, 5, 9, 9, 6, 2, 7, 3, 7, 0, 4, 9, 6>>
TwoTo53 == <<9, 0, 0, 7, 1, 9, 9, 2, 5, 4, 7, 4, 0, 9, 9, 2>>
TwoTo85 == <<3, 8, 6, 8, 5, 6, 2, 6, 2, 2, 7, 6, 6, 8, 1, 3, 3, 5, 9, 0, 5,
             9, 7, 6, 3, 2>>

\* places of the whole part of a number: those of 2^85, or more
Places == Len(TwoTo85)

\* digit i of the whole number c written in w places
PlaceOf(c, w, i) == IF i <= w - Len(c) THEN 0 ELSE c[i - (w - Len(c))]

\* the order of the whole part of x, of w places, and the whole number c,
\* decided by the first place in which they differ: -1, 0 or 1
WholeCmp(x, w, c) ==
    LET D == {i \in 1..w : x[i] # PlaceOf(c, w, i)}
        i == CHOOSE i \in D : \A j \in D : i <= j
    IN IF D = {} THEN 0 ELSE IF x[i] < PlaceOf(c, w, i) THEN -1 ELSE 1

\* x halved until its whole part is below 2^53, 32 times at once while it
\* is 2^85 or more; k counts the halvings
RECURSIVE HalveBy32(_, _, _)
HalveBy32(x, w, k) ==
    IF Len(x) > 0 /\ WholeCmp(x, w, TwoTo85) >= 0
    THEN HalveBy32(HalfTimes(x, 32), w, k + 32)
    ELSE [x |-> x, k |-> k]

RECURSIVE HalveBy1(_, _, _)
HalveBy1(x, w, k) ==
    IF Len(x) > 0 /\ WholeCmp(x, w, TwoTo53) >= 0
    THEN HalveBy1(Half(x), w, k + 1)
    ELSE [x |-> x, k |-> k]

\* x has a fraction that is not zero
HasFraction(x, w) == \E i \in (w + 1)..Len(x) : x[i] # 0

\* x doubled while it has a fraction and its whole part is below 2^52, n
\* times at most and until k, the count of the doublings, is 1074
RECURSIVE DoubleUpTo(_, _, _, _)
DoubleUpTo(x, w, k, n) ==
    IF n > 0 /\ k < 1074 /\ HasFraction(x, w) /\ WholeCmp(x, w, TwoTo52) < 0
    THEN DoubleUpTo(Double(x), w, k + 1, n - 1)
    ELSE [x |-> x, k |-> k]

\* the same without a bound on the doublings, which are done 32 at a time
RECURSIVE DoubleBy32(_, _, _)
DoubleBy32(x, w, k) ==
    LET r == DoubleUpTo(x, w, k, 32)
    IN IF r.k = k + 32 THEN DoubleBy32(r.x, w, r.k) ELSE r

\* x = y * 2^exp with y below 2^53 and of no fraction, or y in [2^52, 2^53),
\* or exp = -1074
Scaled(x, w) ==
    IF WholeCmp(x, w, TwoTo53) >= 0
    THEN LET a == HalveBy32(x, w, 0)
             b == HalveBy1(a.x, w, a.k)
         IN [x |-> b.x, exp |-> b.k]
    ELSE LET b == DoubleBy32(x, w, 0)
         IN [x |-> b.x, exp |-> 0 - b.k]

\* round-half-even of x to a whole number: the fraction is above a half, or
\* is a half and the whole part is odd
RoundsUp(x, w) ==
    /\ Len(x) > w
    /\ \/ x[w + 1] > 5
       \/ /\ x[w + 1] = 5
          /\ \/ \E i \in (w + 2)..Len(x) : x[i] # 0
             \/ (x[w] % 2) = 1

\* the whole number next to x
Rounded(x, w) ==
    IF RoundsUp(x, w) THEN Increment(SubSeq(x, 1, w)) ELSE SubSeq(x, 1, w)

\* the digits of 0.sd * 10^E in w whole places and the places of fraction
\* that hold a digit of sd
Placed(sd, E, w) ==
    LET n == IF Len(sd) > E THEN w - E + Len(sd) ELSE w
    IN SubSeq([i \in 1..n |->
                  IF i > w - E /\ i <= w - E + Len(sd)
                  THEN DigitVal(sd[i - (w - E)]) ELSE 0], 1, n)

\* the whole number m, not zero, times 2^exp with its factors 2 moved to
\* the power of 2: m is halved while it is even
RECURSIVE OddTimes(_, _)
OddTimes(m, exp) ==
    IF (m[Len(m)] % 2) = 0 /\ \E i \in 1..Len(m) : m[i] # 0
    THEN OddTimes(SubSeq(Half(m), 1, Len(m)), exp + 1)
    ELSE [mant |-> StripZeros([i \in 1..Len(m) |-> DigitChars[m[i] + 1]]),
          exp |-> exp]

\* the double next to 0.sd * 10^E, for a decimal between 2^-1075 and
\* 2^1024 - 2^970: the decimal is brought to y * 2^exp with y a whole
\* number below 2^53, or with y in [2^52, 2^53), or with exp = -1074 below
\* 2^-1022 where the doubles are 2^-1074 apart, and y is rounded half-even
\* to a whole number
FiniteVal(sign, sd, E) ==
    LET w == IF E > Places THEN E ELSE Places
        s == Scaled(Placed(sd, E, w), w)
        d == OddTimes(Rounded(s.x, w), s.exp)
    IN PyFloat(sign, d.mant, d.exp)

\* float() converts a mantissa of at most MAX_DIGITS digits from its first
\* digit that is not 0, and of at most MAX_DIGITS digits of fraction
MAX_DIGITS == 1000000000

\* float() of sign * ip.fp * 10^expo.  With sd the digits of the mantissa
\* from its first digit that is not 0, float() raises ValueError when sd or
\* fp has more than MAX_DIGITS digits.  Otherwise the value is 0.sd * 10^E:
\* zero for a mantissa of zeros, infinity from 2^1024 - 2^970 on, zero up to
\* 2^-1075, and otherwise the double next to the decimal.  An exponent of
\* more than nine digits decides by its sign: with at most MAX_DIGITS
\* digits in sd and in fp, the decimal is above 10^(10^8) or below
\* 10^-(10^8)
FloatVal(sign, ip, fp, expo) ==
    LET sd == StripZeros(ip \o fp)
        E == Len(sd) - Len(fp) + ExpoVal(expo)
    IN IF Len(sd) > MAX_DIGITS \/ Len(fp) > MAX_DIGITS THEN PyRaises("ValueError")
       ELSE IF sd = <<>> THEN PyZero(sign)
       ELSE IF LongExponent(expo)
       THEN (IF SignOf(expo) > 0 THEN PyInf(sign) ELSE PyZero(sign))
       ELSE IF E > DBL_OVERFLOW_EXP
               \/ (E = DBL_OVERFLOW_EXP /\ FracCmp(sd, DBL_OVERFLOW) >= 0)
       THEN PyInf(sign)
       ELSE IF E < DBL_UNDERFLOW_EXP
               \/ (E = DBL_UNDERFLOW_EXP /\ FracCmp(sd, DBL_UNDERFLOW) <= 0)
       THEN PyZero(sign)
       ELSE FiniteVal(sign, sd, E)

FloatParts(sign, mant, expo) ==
    FloatVal(sign, SubSeq(mant, 1, DPos(mant) - 1),
             SubSeq(mant, DPos(mant) + 1, Len(mant)), expo)

FloatUnsigned(sign, b) ==
    FloatParts(sign, SubSeq(b, 1, EPos(b) - 1), SubSeq(b, EPos(b) + 1, Len(b)))

\* float(literal) for a text that matches the number pattern
FloatOf(s) == FloatUnsigned(SignOf(s), Unsigned(s))

\* a conversion that takes a number text for an integer only when it
\* carries no sign
NumberOf_signed_is_float(s) ==
    IF IntParses(s) /\ s[1] \notin {"-", "+"} THEN PyInt(DigitsVal(s)) ELSE FloatOf(s)

\* try: int(literal) except ValueError: float(literal); the ValueError of
\* float() is not caught
NumberOf(s) == IF IntParses(s) THEN PyInt(SignOf(s) * DigitsVal(Unsigned(s)))
               ELSE FloatOf(s)

(***************************************************************************)
(* A parser instance.  kind is the outermost object the caller holds:      *)
(* "lexer" (_Lexer alone), "json" (JSONStreamer) or "object"               *)
(* (ObjectStreamer).  accFirst is the iteration order of the tokenizer's   *)
(* set of catch-all listeners {_Lexer._catch_all,                          *)
(* _TextAccumulator._listener}: the order of a Python set of bound         *)
(* methods is fixed per instance but not determined by the program.        *)
(***************************************************************************)
Kinds == {"lexer", "json", "object"}

NewParser(kind, accFirst) ==
    [kind |-> kind, accFirst |-> accFirst,
     \* _TextAccumulator.__init__
     acc |-> <<>>, escaping |-> FALSE, string_start |-> FALSE,
     \* _Lexer.__init__ : released is "_tokenizer, _text_accumulator and
     \* _state_machine are None"
     started |-> FALSE, cur |-> "NEW", released |-> FALSE,
     \* JSONStreamer.__init__ : lexer_none is "_lexer is None",
     \* stack_none is "_stack is None"
     lexer_none |-> FALSE, stack |-> <<>>, stack_none |-> FALSE,
     pending_value |-> FALSE,
     \* ObjectStreamer.__init__ / _on_doc_start
     streamer_none |-> FALSE, root |-> "None", obj_stack |-> <<>>,
     key_stack |-> <<>>,
     \* ListenerRegister.__init__ of the instance the caller holds.  The
     \* caller has one catch-all listener and one listener for events:
     \* catch_all is "the catch-all listener is in _catch_alls", register
     \* the keys of _register, listen_for the keys whose set holds the
     \* listener; caught and heard are what the two listeners have been
     \* called with
     catch_all |-> FALSE, register |-> {}, listen_for |-> {},
     caught |-> <<>>, heard |-> <<>>,
     \* events fired by each layer, in order
     levents |-> <<>>, sevents |-> <<>>, oevents |-> <<>>,
     \* text popped from the accumulator at the last close of a bare literal
     last_literal |-> <<>>,
     \* events a handler is about to fire
     lout |-> <<>>, out |-> <<>>,
     exc |-> NoExc]

(***************************************************************************)
(* EventSource, on the instance the caller holds (it has no observers)     *)
(***************************************************************************)
\* the characters str.upper() changes into one other character, and what it
\* changes them into, up to U+00FF: a to z and the small letters of U+00E0
\* to U+00FE
LowerCase == <<
    "a", "b", "c", "d", "e", "f", "g", "h", "i", "j", "k", "l", "m", "n",
    "o", "p", "q", "r", "s", "t", "u", "v", "w", "x", "y", "z", "à", "á",
    "â", "ã", "ä", "å", "æ", "ç", "è", "é", "ê", "ë", "ì", "í", "î", "ï",
    "ð", "ñ", "ò", "ó", "ô", "õ", "ö", "ø", "ù", "ú", "û", "ü", "ý", "þ" >>
UpperCase == <<
    "A", "B", "C", "D", "E", "F", "G", "H", "I", "J", "K", "L", "M", "N",
    "O", "P", "Q", "R", "S", "T", "U", "V", "W", "X", "Y", "Z", "À", "Á",
    "Â", "Ã", "Ä", "Å", "Æ", "Ç", "È", "É", "Ê", "Ë", "Ì", "Í", "Î", "Ï",
    "Ð", "Ñ", "Ò", "Ó", "Ô", "Õ", "Ö", "Ø", "Ù", "Ú", "Û", "Ü", "Ý", "Þ" >>

\* str.upper() of one character of U+0000 to U+00FF, as a text: U+00DF
\* becomes SS; U+00B5 and U+00FF become U+039C and U+0178, which a string
\* of this language cannot hold and which are written by their code points
UpperChar(c) ==
    IF c = "ß" THEN <<"S", "S">>
    ELSE IF c = "µ" THEN <<"U+039C">>
    ELSE IF c = "ÿ" THEN <<"U+0178">>
    ELSE IF \E i \in 1..Len(LowerCase) : LowerCase[i] = c
    THEN <<UpperCase[CHOOSE i \in 1..Len(LowerCase) : LowerCase[i] = c]>>
    ELSE <<c>>

\* event.upper() of add_listener, remove_listener, remove_event and
\* get_listeners, on the characters of the name
RECURSIVE EventUpper(_)
EventUpper(s) == IF s = <<>> THEN <<>> ELSE UpperChar(Head(s)) \o EventUpper(Tail(s))

\* the characters of a name: of the names the three layers fire
\* (_Lexer fires State.name, upper-cased by State.__init__, and 'LITERAL')
\* and of the names a caller of fire uses in the model
Spelled(n) ==
    CASE n = "doc_start" -> <<"d", "o", "c", "_", "s", "t", "a", "r", "t">>
      [] n = "doc_end" -> <<"d", "o", "c", "_", "e", "n", "d">>
      [] n = "object_start" -> <<"o", "b", "j", "e", "c", "t", "_", "s", "t", "a", "r", "t">>
      [] n = "object_end" -> <<"o", "b", "j", "e", "c", "t", "_", "e", "n", "d">>
      [] n = "array_start" -> <<"a", "r", "r", "a", "y", "_", "s", "t", "a", "r", "t">>
      [] n = "array_end" -> <<"a", "r", "r", "a", "y", "_", "e", "n", "d">>
      [] n = "key" -> <<"k", "e", "y">>
      [] n = "value" -> <<"v", "a", "l", "u", "e">>
      [] n = "element" -> <<"e", "l", "e", "m", "e", "n", "t">>
      [] n = "pair" -> <<"p", "a", "i", "r">>
      [] n = "object_stream_start" -> <<"o", "b", "j", "e", "c", "t", "_", "s", "t", "r", "e", "a", "m", "_", "s", "t", "a", "r", "t">>
      [] n = "object_stream_end" -> <<"o", "b", "j", "e", "c", "t", "_", "s", "t", "r", "e", "a", "m", "_", "e", "n", "d">>
      [] n = "array_stream_start" -> <<"a", "r", "r", "a", "y", "_", "s", "t", "r", "e", "a", "m", "_", "s", "t", "a", "r", "t">>
      [] n = "array_stream_end" -> <<"a", "r", "r", "a", "y", "_", "s", "t", "r", "e", "a", "m", "_", "e", "n", "d">>
      [] n = "DOC_START" -> <<"D", "O", "C", "_", "S", "T", "A", "R", "T">>
      [] n = "DOC_END" -> <<"D", "O", "C", "_", "E", "N", "D">>
      [] n = "OBJECT_START" -> <<"O", "B", "J", "E", "C", "T", "_", "S", "T", "A", "R", "T">>
      [] n = "OBJECT_END" -> <<"O", "B", "J", "E", "C", "T", "_", "E", "N", "D">>
      [] n = "ARRAY_START" -> <<"A", "R", "R", "A", "Y", "_", "S", "T", "A", "R", "T">>
      [] n = "ARRAY_END" -> <<"A", "R", "R", "A", "Y", "_", "E", "N", "D">>
      [] n = "LITERAL" -> <<"L", "I", "T", "E", "R", "A", "L">>
      [] n = "Key" -> <<"K", "e", "y">>
      [] n = "Literal" -> <<"L", "i", "t", "e", "r", "a", "l">>
      [] n = "Pair" -> <<"P", "a", "i", "r">>
      [] n = "ping" -> <<"p", "i", "n", "g">>

\* ListenerRegister.add_listener(event, l) for the listener l of the caller
AddListener(p, event) ==
    [p EXCEPT !.register = @ \cup {EventUpper(event)},
              !.listen_for = @ \cup {EventUpper(event)}]

\* ListenerRegister.add_catch_all_listener(l) for the catch-all listener of
\* the caller
AddCatchAllListener(p) == [p EXCEPT !.catch_all = TRUE]

\* ListenerRegister.remove_listener(event, l): nothing is done when the
\* event has no set of listeners or an empty one
RemoveListener(p, event) ==
    IF EventUpper(event) \in p.listen_for
    THEN [p EXCEPT !.listen_for = @ \ {EventUpper(event)}]
    ELSE p

\* ListenerRegister.remove_catch_all_listener(l): set.remove
RemoveCatchAllListener(p) ==
    IF p.catch_all THEN [p EXCEPT !.catch_all = FALSE]
    ELSE Raise(p, Exc("KeyError", "catch_alls"))

\* ListenerRegister.remove_event(event): del self._register[event]
RemoveEvent(p, event) ==
    IF EventUpper(event) \in p.register
    THEN [p EXCEPT !.register = @ \ {EventUpper(event)},
                   !.listen_for = @ \ {EventUpper(event)}]
    ELSE Raise(p, Exc("KeyError", "register"))

\* add_catch_all_listener(l) and add_listener(event, l) on a new instance
NewListening(kind, accFirst, event) ==
    AddListener(AddCatchAllListener(NewParser(kind, accFirst)), event)

\* fire, first loop: the listeners registered for the event get the payload
FireNamed(p, name, args) ==
    IF p.listen_for # {} /\ EventUpper(Spelled(name)) \in p.listen_for
    THEN [p EXCEPT !.heard = Append(@, args)]
    ELSE p

\* fire, last loop: the catch-all listeners get the event and the payload
FireCatchAll(p, name, args) ==
    IF p.catch_all THEN [p EXCEPT !.caught = Append(@, Ev(name, args))] ELSE p

\* fire that ends after the listeners registered for the event
Fire_ends_after_named(p, name, args) ==
    IF p.listen_for # {} /\ EventUpper(Spelled(name)) \in p.listen_for
    THEN FireNamed(p, name, args)
    ELSE FireCatchAll(p, name, args)

\* EventSource.fire(event, *args)
Fire(p, name, args) == FireCatchAll(FireNamed(p, name, args), name, args)

(***************************************************************************)
(* ObjectStreamer                                                          *)
(***************************************************************************)
OFire(p, name, args) == Fire([p EXCEPT !.oevents = Append(@, Ev(name, args))], name, args)

Top(s) == s[Len(s)]
Pop(s) == SubSeq(s, 1, Len(s) - 1)
SetTop(s, v) == [s EXCEPT ![Len(s)] = v]

O_on_doc_start(p) == [p EXCEPT !.root = "None", !.obj_stack = <<>>, !.key_stack = <<>>]

O_on_doc_end(p) == p

\* an _on_object_start that stacks a map for the root object too
O_on_object_start_stacks_root(p) ==
    IF p.root = "None"
    THEN OFire([p EXCEPT !.root = "OBJECT", !.obj_stack = Append(@, PyDict(<<>>))],
               "object_stream_start", <<>>)
    ELSE [p EXCEPT !.obj_stack = Append(@, PyDict(<<>>))]

O_on_object_start(p) ==
    IF p.root = "None"
    THEN OFire([p EXCEPT !.root = "OBJECT"], "object_stream_start", <<>>)
    ELSE [p EXCEPT !.obj_stack = Append(@, PyDict(<<>>))]

\* a top.append(o) that puts o first
AppendToTop_prepends(p, o) ==
    IF Top(p.obj_stack).t = "list"
    THEN [p EXCEPT !.obj_stack = SetTop(@, PyList(<<o>> \o Top(@).items))]
    ELSE Raise(p, Exc("AttributeError", "dict_append"))

\* top.append(o) on the container on top of _obj_stack
AppendToTop(p, o) ==
    IF Top(p.obj_stack).t = "list"
    THEN [p EXCEPT !.obj_stack = SetTop(@, ListAppend(Top(@), o))]
    ELSE Raise(p, Exc("AttributeError", "dict_append"))

\* top[k] = o on the container on top of _obj_stack
AssignToTop(p, k, o) ==
    IF Top(p.obj_stack).t = "dict"
    THEN [p EXCEPT !.obj_stack = SetTop(@, DictSet(Top(@), k, o))]
    ELSE Raise(p, Exc("TypeError", "list_index"))

\* a _process_deep_entities that takes a key for a list parent too when
\* several keys are pending
_process_deep_entities_list_takes_key(p) ==
    LET o == Top(p.obj_stack)
        q == [p EXCEPT !.obj_stack = Pop(@)]
        key_depth == Len(q.key_stack)
        popk == [q EXCEPT !.key_stack = Pop(@)]
    IN IF key_depth = 0
       THEN IF Len(q.obj_stack) = 0
            THEN OFire(q, "element", <<o>>)
            ELSE AppendToTop(q, o)
       ELSE IF key_depth = 1
       THEN IF Len(q.obj_stack) = 0
            THEN OFire(popk, "pair", <<PyTuple(Top(q.key_stack), o)>>)
            ELSE IF Top(q.obj_stack).t = "list"
                 THEN AppendToTop(q, o)
                 ELSE AssignToTop(popk, Top(q.key_stack), o)
       ELSE IF Len(q.obj_stack) = 0
            THEN Raise(q, Exc("IndexError", "obj_stack"))
            ELSE IF Top(q.obj_stack).t = "list"
                 THEN AppendToTop(popk, o)
                 ELSE AssignToTop(popk, Top(q.key_stack), o)

_process_deep_entities(p) ==
    LET o == Top(p.obj_stack)
        q == [p EXCEPT !.obj_stack = Pop(@)]
        key_depth == Len(q.key_stack)
        popk == [q EXCEPT !.key_stack = Pop(@)]
    IN IF key_depth = 0
       THEN IF Len(q.obj_stack) = 0
            THEN OFire(q, "element", <<o>>)
            ELSE AppendToTop(q, o)
       ELSE IF key_depth = 1
       THEN IF Len(q.obj_stack) = 0
            THEN OFire(popk, "pair", <<PyTuple(Top(q.key_stack), o)>>)
            ELSE IF Top(q.obj_stack).t = "list"
                 THEN AppendToTop(q, o)
                 ELSE AssignToTop(popk, Top(q.key_stack), o)
       ELSE IF Len(q.obj_stack) = 0
            THEN Raise(q, Exc("IndexError", "obj_stack"))
            ELSE IF Top(q.obj_stack).t = "list"
                 THEN AppendToTop(q, o)
                 ELSE AssignToTop(popk, Top(q.key_stack), o)

O_on_object_end(p) ==
    IF Len(p.obj_stack) > 0 THEN _process_deep_entities(p)
    ELSE OFire(p, "object_stream_end", <<>>)

O_on_array_start(p) ==
    IF p.root = "None"
    THEN OFire([p EXCEPT !.root = "ARRAY"], "array_stream_start", <<>>)
    ELSE [p EXCEPT !.obj_stack = Append(@, PyList(<<>>))]

\* an _on_array_end that fires the end of the stream for every closed array
O_on_array_end_always_ends(p) ==
    OFire(IF Len(p.obj_stack) > 0 THEN _process_deep_entities(p) ELSE p,
          "array_stream_end", <<>>)

O_on_array_end(p) ==
    IF Len(p.obj_stack) > 0 THEN _process_deep_entities(p)
    ELSE OFire(p, "array_stream_end", <<>>)

O_on_key(p, key) == [p EXCEPT !.key_stack = Append(@, key)]

O_on_value(p, value) ==
    IF Len(p.key_stack) = 0 THEN Raise(p, Exc("IndexError", "key_stack"))
    ELSE LET k == Top(p.key_stack)
             q == [p EXCEPT !.key_stack = Pop(@)]
         IN IF Len(q.obj_stack) = 0
            THEN OFire(q, "pair", <<PyTuple(k, value)>>)
            ELSE AssignToTop(q, k, value)

O_on_element(p, item) ==
    IF Len(p.obj_stack) = 0 THEN OFire(p, "element", <<item>>)
    ELSE AppendToTop(p, item)

\* auto_listen: the handler _on_<event> of the ObjectStreamer
ODispatch(p, name, args) ==
    CASE name = "doc_start" -> O_on_doc_start(p)
      [] name = "doc_end" -> O_on_doc_end(p)
      [] name = "object_start" -> O_on_object_start(p)
      [] name = "object_end" -> O_on_object_end(p)
      [] name = "array_start" -> O_on_array_start(p)
      [] name = "array_end" -> O_on_array_end(p)
      [] name = "key" -> O_on_key(p, args[1])
      [] name = "value" -> O_on_value(p, args[1])
      [] name = "element" -> O_on_element(p, args[1])
      [] OTHER -> p

(***************************************************************************)
(* JSONStreamer.  Every handler ends with self.fire(...): a handler leaves *)
(* the event it fires in the field out, and Emit fires it.                 *)
(***************************************************************************)
J_on_doc_start(p) == [p EXCEPT !.out = <<Ev("doc_start", <<>>)>>]

J_on_doc_end(p) == [p EXCEPT !.out = <<Ev("doc_end", <<>>)>>]

J_on_object_start(p) ==
    [p EXCEPT !.stack = Append(@, "OBJECT"), !.pending_value = FALSE,
              !.out = <<Ev("object_start", <<>>)>>]

J_on_object_end(p) ==
    IF Len(p.stack) = 0 THEN Raise(p, Exc("IndexError", "stack"))
    ELSE [p EXCEPT !.stack = Pop(@), !.pending_value = FALSE,
                   !.out = <<Ev("object_end", <<>>)>>]

J_on_array_start(p) ==
    [p EXCEPT !.stack = Append(@, "ARRAY"), !.out = <<Ev("array_start", <<>>)>>]

J_on_array_end(p) ==
    IF Len(p.stack) = 0
    THEN Raise([p EXCEPT !.pending_value = FALSE], Exc("IndexError", "stack"))
    ELSE [p EXCEPT !.pending_value = FALSE, !.stack = Pop(@),
                   !.out = <<Ev("array_end", <<>>)>>]

\* J_on_literal that leaves _pending_value set after emitting a value
J_on_literal_keeps_pending(p, json_value_type, value) ==
    IF Len(p.stack) = 0 THEN Raise(p, Exc("IndexError", "stack"))
    ELSE IF Top(p.stack) = "OBJECT"
    THEN IF p.pending_value
         THEN [p EXCEPT !.out = <<Ev("value", <<value>>)>>]
         ELSE IF json_value_type # LiteralType("STRING")
              THEN Raise(p, Exc("AssertionError", "key_not_string"))
              ELSE [p EXCEPT !.pending_value = TRUE, !.out = <<Ev("key", <<value>>)>>]
    ELSE [p EXCEPT !.out = <<Ev("element", <<value>>)>>]

J_on_literal(p, json_value_type, value) ==
    IF Len(p.stack) = 0 THEN Raise(p, Exc("IndexError", "stack"))
    ELSE IF Top(p.stack) = "OBJECT"
    THEN IF p.pending_value
         THEN [p EXCEPT !.pending_value = FALSE, !.out = <<Ev("value", <<value>>)>>]
         ELSE IF json_value_type # LiteralType("STRING")
              THEN Raise(p, Exc("AssertionError", "key_not_string"))
              ELSE [p EXCEPT !.pending_value = TRUE, !.out = <<Ev("key", <<value>>)>>]
    ELSE [p EXCEPT !.out = <<Ev("element", <<value>>)>>]

\* auto_listen: the handler _on_<event.lower()> of the JSONStreamer
JHandler(p, name, args) ==
    CASE name = "DOC_START" -> J_on_doc_start(p)
      [] name = "DOC_END" -> J_on_doc_end(p)
      [] name = "OBJECT_START" -> J_on_object_start(p)
      [] name = "OBJECT_END" -> J_on_object_end(p)
      [] name = "ARRAY_START" -> J_on_array_start(p)
      [] name = "ARRAY_END" -> J_on_array_end(p)
      [] name = "LITERAL" -> J_on_literal(p, args[1], args[2])
      [] OTHER -> p

\* EventSource.fire on the JSONStreamer: the event is fired, then handled
\* by the observing ObjectStreamer when there is one
JFire(p, name, args) ==
    IF p.kind = "object"
    THEN ODispatch([p EXCEPT !.sevents = Append(@, Ev(name, args))], name, args)
    ELSE Fire([p EXCEPT !.sevents = Append(@, Ev(name, args))], name, args)

\* the self.fire(...) that ends a JSONStreamer handler
JEmit(p) ==
    IF Raised(p) \/ p.out = <<>> THEN p
    ELSE JFire([p EXCEPT !.out = <<>>], p.out[1].name, p.out[1].args)

JDispatch(p, name, args) == JEmit(JHandler(p, name, args))

(***************************************************************************)
(* _Lexer: the state machine assembled by _setup_state_machine             *)
(***************************************************************************)
\* State._transitions in registration order (on and loops), as <<event, new_state>>
Transitions(s) ==
    CASE s = "NEW" -> << <<"START", "DOC_START">>, <<"END", "DOC_END">> >>
      [] s = "DOC_START" -> << <<"LBRACE", "OBJECT_START">>, <<"LSQUARE", "ARRAY_START">> >>
      [] s = "DOC_END" -> << <<"RESET", "NEW">> >>
      [] s = "OBJECT_START" -> << <<"LBRACE", "OBJECT_START">>, <<"RBRACE", "OBJECT_END">>,
                                  <<"DBLQUOTE", "STRING_START">> >>
      [] s = "OBJECT_END" -> << <<"END", "DOC_END">>, <<"LBRACE", "OBJECT_END">>,
                                <<"RBRACE", "OBJECT_END">>, <<"RSQUARE", "ARRAY_END">>,
                                <<"COMMA", "MORE">> >>
      [] s = "ARRAY_START" -> << <<"LBRACE", "OBJECT_START">>, <<"RSQUARE", "ARRAY_END">>,
                                 <<"LSQUARE", "ARRAY_START">>, <<"CHAR", "LITERAL">>,
                                 <<"DBLQUOTE", "STRING_START">> >>
      [] s = "ARRAY_END" -> << <<"END", "DOC_END">>, <<"COMMA", "MORE">>,
                               <<"RBRACE", "OBJECT_END">>, <<"RSQUARE", "ARRAY_END">> >>
      [] s = "STRING_START" -> << <<"CHAR", "STRING_START">>, <<"COMMA", "STRING_START">>,
                                  <<"COLON", "STRING_START">>, <<"WHITESPACE", "STRING_START">>,
                                  <<"NEWLINE", "STRING_START">>, <<"LBRACE", "STRING_START">>,
                                  <<"RBRACE", "STRING_START">>, <<"LSQUARE", "STRING_START">>,
                                  <<"RSQUARE", "STRING_START">>,
                                  <<"BACKSLASH", "STRING_ESCAPING">>,
                                  <<"DBLQUOTE", "STRING_END">> >>
      [] s = "STRING_ESCAPING" -> << <<"CHAR", "STRING_START">>, <<"DBLQUOTE", "STRING_START">>,
                                     <<"BACKSLASH", "STRING_START">> >>
      [] s = "STRING_END" -> << <<"RBRACE", "OBJECT_END">>, <<"RSQUARE", "ARRAY_END">>,
                                <<"COMMA", "MORE">>, <<"COLON", "MORE">> >>
      [] s = "LITERAL" -> << <<"CHAR", "LITERAL">>, <<"RBRACE", "OBJECT_END">>,
                             <<"RSQUARE", "ARRAY_END">>, <<"COMMA", "MORE">> >>
      [] s = "MORE" -> << <<"LBRACE", "OBJECT_START">>, <<"LSQUARE", "ARRAY_START">>,
                          <<"CHAR", "LITERAL">>, <<"DBLQUOTE", "STRING_START">> >>
      [] OTHER -> <<>>

\* ignore rules of a doc_start that also skips ordinary characters
Ignored_doc_start_skips_char(s) ==
    CASE s = "DOC_START" -> {"NEWLINE", "WHITESPACE", "CHAR"}
      [] s \in {"NEW", "OBJECT_START", "OBJECT_END", "ARRAY_START",
                "ARRAY_END", "STRING_END", "LITERAL", "MORE"} -> {"NEWLINE", "WHITESPACE"}
      [] OTHER -> {}

\* ignore rules of a string_escaping that skips whitespace and newlines
Ignored_escaping_skips_space(s) ==
    CASE s \in {"NEW", "DOC_START", "OBJECT_START", "OBJECT_END", "ARRAY_START",
                "ARRAY_END", "STRING_END", "LITERAL", "MORE", "STRING_ESCAPING"} ->
             {"NEWLINE", "WHITESPACE"}
      [] OTHER -> {}

\* State._ignored
Ignored(s) ==
    CASE s \in {"NEW", "DOC_START", "OBJECT_START", "OBJECT_END", "ARRAY_START",
                "ARRAY_END", "STRING_END", "LITERAL", "MORE"} -> {"NEWLINE", "WHITESPACE"}
      [] OTHER -> {}

\* State._faults
Faults(s) ==
    CASE s = "NEW" -> {"LBRACE", "LSQUARE", "RBRACE", "RSQUARE", "CHAR", "COMMA", "COLON",
                       "DBLQUOTE", "BACKSLASH"}
      [] s = "DOC_START" -> {"START", "END", "RBRACE", "RSQUARE", "CHAR", "COMMA", "COLON",
                             "DBLQUOTE", "BACKSLASH"}
      [] s = "DOC_END" -> {"START", "END", "LBRACE", "RBRACE", "LSQUARE", "RSQUARE", "CHAR",
                           "COMMA", "COLON", "DBLQUOTE", "BACKSLASH"}
      [] s = "OBJECT_START" -> {"START", "END", "LSQUARE", "RSQUARE", "COMMA", "COLON",
                                "BACKSLASH"}
      [] s = "OBJECT_END" -> {"START", "RESET", "LSQUARE", "CHAR", "COLON", "DBLQUOTE",
                              "BACKSLASH"}
      [] s = "ARRAY_START" -> {"START", "END", "RESET", "RBRACE", "RSQUARE", "COMMA", "COLON",
                               "BACKSLASH"}
      [] s = "ARRAY_END" -> {"START", "RESET", "LBRACE", "LSQUARE", "RSQUARE", "CHAR", "COLON",
                             "DBLQUOTE", "BACKSLASH"}
      [] s = "STRING_START" -> {"START", "END", "RESET"}
      [] s = "STRING_ESCAPING" -> {"START", "END", "RESET", "LBRACE", "RBRACE", "LSQUARE",
                                   "RSQUARE", "COMMA", "COLON", "WHITESPACE", "NEWLINE"}
      [] s = "STRING_END" -> {"START", "END", "RESET", "LBRACE", "LSQUARE", "CHAR", "COLON",
                              "DBLQUOTE", "BACKSLASH"}
      [] s = "LITERAL" -> {"START", "END", "RESET", "LBRACE", "LSQUARE", "COLON", "DBLQUOTE",
                           "BACKSLASH"}
      [] s = "MORE" -> {"START", "END", "RESET", "RBRACE", "RSQUARE", "COMMA", "COLON",
                        "BACKSLASH"}
      [] OTHER -> {}

LexerStates == {"NEW", "DOC_START", "DOC_END", "OBJECT_START", "OBJECT_END", "ARRAY_START",
                "ARRAY_END", "STRING_START", "STRING_ESCAPING", "STRING_END", "LITERAL",
                "MORE"}

\* State.can(event): the new states of the transitions on this event
Can(s, event) ==
    LET ts == Transitions(s)
    IN SelectSeq([i \in 1..Len(ts) |-> IF ts[i][1] = event THEN ts[i][2] ELSE ""],
                 LAMBDA x : x # "")

\* EventSource.fire on the _Lexer: the event is fired, then handled by the
\* observing JSONStreamer when there is one
LFire(p, name, args) ==
    IF p.kind = "lexer"
    THEN Fire([p EXCEPT !.levents = Append(@, Ev(name, args))], name, args)
    ELSE JDispatch([p EXCEPT !.levents = Append(@, Ev(name, args))], name, args)

\* the events _on_after_state_change has decided to fire are fired in order;
\* an exception in a listener ends the call
RECURSIVE LEmit(_)
LEmit(p) ==
    IF Raised(p) \/ p.lout = <<>> THEN [p EXCEPT !.lout = <<>>]
    ELSE LEmit(LFire([p EXCEPT !.lout = Tail(@)], p.lout[1].name, p.lout[1].args))

\* _on_after_state_change, first part: a string that has ended is emitted
AfterString(p, previous_state) ==
    IF previous_state = "STRING_END"
    THEN [p EXCEPT !.acc = <<>>,
                   !.lout = <<Ev("LITERAL", <<LiteralType("STRING"),
                                              PyStr(Slice1m1(Strip(p.acc)))>>)>>]
    ELSE p

\* the literal fired for the text of a bare literal, none if there is none
LiteralOf(literal) ==
    IF _number_pattern(literal)
    THEN <<Ev("LITERAL", <<LiteralType("NUMBER"), NumberOf(literal)>>)>>
    ELSE IF literal = <<"t", "r", "u", "e">>
    THEN <<Ev("LITERAL", <<LiteralType("BOOLEAN"), PyBool(TRUE)>>)>>
    ELSE IF literal = <<"f", "a", "l", "s", "e">>
    THEN <<Ev("LITERAL", <<LiteralType("BOOLEAN"), PyBool(FALSE)>>)>>
    ELSE IF literal = <<"n", "u", "l", "l">>
    THEN <<Ev("LITERAL", <<LiteralType("NULL"), PyNone>>)>>
    ELSE <<>>

\* an _on_after_state_change that drops a text that is no literal
EmitLiteral_skips_invalid(p, literal, fired) ==
    [p EXCEPT !.acc = <<>>, !.last_literal = literal, !.lout = fired]

\* the text popped from the accumulator is emitted as a literal, or
\* refused; a number text that float() does not convert fires nothing and
\* its ValueError leaves the call
EmitLiteral(p, literal, fired) ==
    IF fired # <<>> /\ fired[1].args[2].t = "raises"
    THEN Raise([p EXCEPT !.acc = <<>>, !.last_literal = literal],
               [Exc(fired[1].args[2].type, "could_not_convert") EXCEPT !.text = literal])
    ELSE IF fired # <<>>
    THEN [p EXCEPT !.acc = <<>>, !.last_literal = literal, !.lout = fired]
    ELSE Raise([p EXCEPT !.acc = <<>>, !.last_literal = literal],
               [Exc("RuntimeError", "invalid_literal") EXCEPT !.text = literal])

\* _on_after_state_change, second part: a bare literal that has ended
AfterLiteral(p, previous_state, new_state) ==
    IF previous_state = "LITERAL" /\ new_state # "LITERAL"
    THEN EmitLiteral(p, Strip(p.acc), LiteralOf(Strip(p.acc)))
    ELSE p

\* _on_after_state_change, third part: structural events
AfterStructural(p, new_state) ==
    IF Raised(p) THEN p
    ELSE IF new_state \in {"DOC_START", "DOC_END", "OBJECT_START", "OBJECT_END",
                           "ARRAY_START", "ARRAY_END"}
    THEN [p EXCEPT !.lout = Append(@, Ev(new_state, <<>>))]
    ELSE p

RECURSIVE SMConsume(_, _)

\* an _on_after_state_change that leaves the state machine in doc_end
AfterDocEnd_rests(p, new_state) ==
    IF Raised(p) \/ new_state # "DOC_END" THEN p
    ELSE [p EXCEPT !.started = FALSE]

\* the end of _on_after_state_change: on entering DOC_END the state machine
\* is sent the reset event and _started is cleared
AfterDocEnd(p, new_state) ==
    IF Raised(p) \/ new_state # "DOC_END" THEN p
    ELSE [SMConsume(p, "RESET") EXCEPT !.started = FALSE]

\* _Lexer._on_after_state_change(previous_state, event, new_state)
_on_after_state_change(p, previous_state, new_state) ==
    AfterDocEnd(
        LEmit(AfterStructural(
                  AfterLiteral(AfterString(p, previous_state), previous_state, new_state),
                  new_state)),
        new_state)

\* StateMachine.consume of a machine whose 'error' listener does not
\* raise: an event the state does not declare is dropped
SMConsume_drops_undeclared(p, event) ==
    IF Can(p.cur, event) # <<>>
    THEN _on_after_state_change([p EXCEPT !.cur = Can(p.cur, event)[1]],
                                p.cur, Can(p.cur, event)[1])
    ELSE IF event \in Ignored(p.cur) THEN p
    ELSE IF event \in Faults(p.cur)
         THEN Raise(p, [Exc("RuntimeError", "faulty_event")
                           EXCEPT !.event = event, !.state = p.cur])
         ELSE p

\* a StateMachine.consume that falls back to the initial state when it
\* rejects an event
SMConsume_restarts_on_fault(p, event) ==
    IF Can(p.cur, event) # <<>>
    THEN _on_after_state_change([p EXCEPT !.cur = Can(p.cur, event)[1]],
                                p.cur, Can(p.cur, event)[1])
    ELSE IF event \in Ignored(p.cur) THEN p
    ELSE IF event \in Faults(p.cur)
         THEN Raise([p EXCEPT !.cur = "NEW"],
                    [Exc("RuntimeError", "faulty_event")
                        EXCEPT !.event = event, !.state = p.cur])
         ELSE Raise([p EXCEPT !.cur = "NEW"],
                    [Exc("RuntimeError", "cannot_be_processed")
                        EXCEPT !.event = event, !.state = p.cur])

\* StateMachine.consume(event) with the _Lexer's listeners attached
SMConsume(p, event) ==
    IF Can(p.cur, event) # <<>>
    THEN _on_after_state_change([p EXCEPT !.cur = Can(p.cur, event)[1]],
                                p.cur, Can(p.cur, event)[1])
    ELSE IF event \in Ignored(p.cur) THEN p
    ELSE IF event \in Faults(p.cur)
         \* State.handle_fault
         THEN Raise(p, [Exc("RuntimeError", "faulty_event")
                           EXCEPT !.event = event, !.state = p.cur])
         \* Event.invalid only logs; the 'error' listener _Lexer._on_error raises
         ELSE Raise(p, [Exc("RuntimeError", "cannot_be_processed")
                           EXCEPT !.event = event, !.state = p.cur])

\* the token reaches the accumulator before the state machine when the
\* accumulator's listener comes first in the listener set
AccBefore(p, c) == IF p.accFirst THEN AccListener(p, TokenName(c), c) ELSE p

\* and after it otherwise, unless the state machine raised
AccAfter(p, c) == IF Raised(p) \/ p.accFirst THEN p ELSE AccListener(p, TokenName(c), c)

\* one character through _Tokenizer.consume: the token is fired to the two
\* catch-all listeners in the order of the listener set
TokenStep(p, c) == AccAfter(SMConsume(AccBefore(p, c), Upper(TokenName(c))), c)

\* a _Tokenizer.consume that takes back what the characters before a
\* fault have done
RECURSIVE TokenizerConsume_all_or_nothing(_, _)
TokenizerConsume_all_or_nothing(p, data) ==
    IF data = <<>> \/ Raised(p) THEN p
    ELSE LET r == TokenizerConsume_all_or_nothing(TokenStep(p, Head(data)), Tail(data))
         IN IF Raised(r) THEN [p EXCEPT !.exc = r.exc] ELSE r

\* _Tokenizer.consume(data)
RECURSIVE TokenizerConsume(_, _)
TokenizerConsume(p, data) ==
    IF data = <<>> \/ Raised(p) THEN p
    ELSE TokenizerConsume(TokenStep(p, Head(data)), Tail(data))

\* the first statement of _Lexer.consume: the start event, once
LexerStart(p) ==
    IF p.started THEN p
    ELSE IF p.released
    THEN Raise([p EXCEPT !.started = TRUE], Exc("AttributeError", "state_machine_none"))
    ELSE SMConsume([p EXCEPT !.started = TRUE], "START")

\* a _Lexer.consume that begins every call with an empty text accumulator
LexerTokenize_drops_text(p, data) ==
    IF Raised(p) THEN p
    ELSE IF p.released THEN Raise(p, Exc("AttributeError", "tokenizer_none"))
    ELSE TokenizerConsume([p EXCEPT !.acc = <<>>], data)

\* the second statement of _Lexer.consume: self._tokenizer.consume(data)
LexerTokenize(p, data) ==
    IF Raised(p) THEN p
    ELSE IF p.released THEN Raise(p, Exc("AttributeError", "tokenizer_none"))
    ELSE TokenizerConsume(p, data)

\* _Lexer.consume that tokenizes the data before it sends the start event
LexerConsume_start_late(p, data) == LexerStart(LexerTokenize(p, data))

\* _Lexer.consume(data)
LexerConsume(p, data) == LexerTokenize(LexerStart(p), data)

\* the end of _Lexer.close: the references are dropped
LexerRelease(p) ==
    IF Raised(p) THEN p ELSE [p EXCEPT !.started = FALSE, !.released = TRUE]

\* _Lexer.close()
LexerClose(p) ==
    IF ~p.started THEN p
    ELSE IF p.released THEN Raise(p, Exc("AttributeError", "state_machine_none"))
    ELSE LexerRelease(SMConsume(p, "END"))

\* JSONStreamer.consume(data)
JConsume(p, data) ==
    IF p.lexer_none THEN Raise(p, Exc("AttributeError", "lexer_none"))
    ELSE LexerConsume(p, data)

\* the end of JSONStreamer.close: self._lexer = None, self._stack = None
JRelease(p) ==
    IF Raised(p) THEN p
    ELSE [p EXCEPT !.lexer_none = TRUE, !.stack_none = TRUE, !.stack = <<>>]

\* JSONStreamer.close that fires DOC_END_EVENT itself before closing the lexer
JClose_fires_doc_end(p) ==
    IF p.lexer_none THEN Raise(p, Exc("AttributeError", "lexer_none"))
    ELSE JRelease(LexerClose(JEmit(J_on_doc_end(p))))

\* JSONStreamer.close that keeps its reference to the lexer
JClose_keeps_lexer(p) ==
    IF p.lexer_none THEN Raise(p, Exc("AttributeError", "lexer_none"))
    ELSE [JRelease(LexerClose(p)) EXCEPT !.lexer_none = FALSE]

\* JSONStreamer.close()
JClose(p) ==
    IF p.lexer_none THEN Raise(p, Exc("AttributeError", "lexer_none"))
    ELSE JRelease(LexerClose(p))

\* ObjectStreamer.consume(data)
OConsume(p, data) ==
    IF p.streamer_none THEN Raise(p, Exc("AttributeError", "streamer_none"))
    ELSE JConsume(p, data)

\* the end of ObjectStreamer.close: self._streamer = None
ORelease(p) == IF Raised(p) THEN p ELSE [p EXCEPT !.streamer_none = TRUE]

\* ObjectStreamer.close()
OClose(p) ==
    IF p.streamer_none THEN Raise(p, Exc("AttributeError", "streamer_none"))
    ELSE ORelease(JClose(p))

\* the consume and close methods of the object the caller holds
Consume(p, data) ==
    LET q == [p EXCEPT !.exc = NoExc]
    IN CASE p.kind = "lexer" -> LexerConsume(q, data)
         [] p.kind = "json" -> JConsume(q, data)
         [] p.kind = "object" -> OConsume(q, data)

Close(p) ==
    LET q == [p EXCEPT !.exc = NoExc]
    IN CASE p.kind = "lexer" -> LexerClose(q)
         [] p.kind = "json" -> JClose(q)
         [] p.kind = "object" -> OClose(q)

(***************************************************************************)
(* Callers.  A caller holds one instance p and a text doc it feeds in      *)
(* chunks; prev, op and chunk record the instance before the last call,    *)
(* the method called and its argument; val is the value the text was       *)
(* written from, when there is one.                                        *)
(***************************************************************************)
VARIABLES p, prev, doc, val, pos, op, chunk, strayed, ncloses, closed_ok, was_closed, consumed

vars == <<p, prev, doc, val, pos, op, chunk, strayed, ncloses, closed_ok, was_closed, consumed>>

\* one character of every token class, and a digit
Alphabet == {"{", "}", "[", "]", ",", ":", "\"", " ", "\n", "\\", "x", "1"}

\* longest chunk handed to one consume call
MaxChunk == 2
\* number of close calls a caller makes
MaxClose == 2

\* texts fed by the callers of Spec
Docs == { <<"{", "\"", "a", "\"", ":", "1", ",", "2", "}">>,
          <<"[", "1", ",", "t", "r", "u", "e", "]">>,
          <<"{", "\"", "a", "\"", ":", "[", "\"", "b", "\"", "]", "}">>,
          <<"[", "{", "\"", "k", "\"", ":", " ", "n", "u", "l", "l", "}", ",", "-", "2", "]">>,
          <<"[", "\"", "\\", "\"", "\"", ",", "1", ".", "5", ",", "n", "o", "]">>,
          <<"{", "\"", "a", "\"", ":", "{", "\"", "b", "\"", ":", "\"", "c", "\"", "}", "}">> }

InitCall(kinds) ==
    /\ p \in {NewParser(k, af) : k \in kinds, af \in BOOLEAN}
    /\ prev = p
    /\ pos = 0
    /\ op = "new"
    /\ chunk = <<>>
    /\ strayed = FALSE
    /\ ncloses = 0
    /\ closed_ok = FALSE
    /\ was_closed = FALSE
    /\ consumed = FALSE

InitCaller(kinds, docs) ==
    /\ doc \in docs
    /\ val = PyNone
    /\ InitCall(kinds)

\* the caller calls consume(data)
CallConsume(data) ==
    /\ p' = Consume(p, data)
    /\ prev' = p
    /\ op' = "consume"
    /\ chunk' = data
    /\ was_closed' = closed_ok
    /\ consumed' = (consumed \/ ~closed_ok)
    /\ UNCHANGED <<doc, val, ncloses, closed_ok>>

\* the caller feeds the next k characters of its text
Feed(k) ==
    /\ pos + k <= Len(doc)
    /\ CallConsume(SubSeq(doc, pos + 1, pos + k))
    /\ pos' = pos + k
    /\ UNCHANGED strayed

\* the caller feeds one character that is not the next one of its text
Stray(c) ==
    /\ ~strayed
    /\ strayed' = TRUE
    /\ CallConsume(<<c>>)
    /\ UNCHANGED pos

\* the caller calls close()
CallClose ==
    /\ ncloses < MaxClose
    /\ p' = Close(p)
    /\ prev' = p
    /\ op' = "close"
    /\ chunk' = <<>>
    /\ ncloses' = ncloses + 1
    /\ was_closed' = closed_ok
    /\ closed_ok' = (closed_ok \/ ~Raised(p'))
    /\ UNCHANGED <<doc, val, pos, strayed, consumed>>

Init == InitCaller({"json", "object"}, Docs)

Next ==
    \/ \E k \in 1..MaxChunk : Feed(k)
    \/ \E c \in Alphabet : Stray(c)
    \/ CallClose

Spec == Init /\ [][Next]_vars

(***************************************************************************)
(* Properties                                                              *)
(***************************************************************************)
Count(evs, name) == Cardinality({i \in 1..Len(evs) : evs[i].name = name})

\* the events each layer fired during the last call
NewL == SubSeq(p.levents, Len(prev.levents) + 1, Len(p.levents))
NewS == SubSeq(p.sevents, Len(prev.sevents) + 1, Len(p.sevents))
NewO == SubSeq(p.oevents, Len(prev.oevents) + 1, Len(p.oevents))

\* the last call was consume of one character on a started, open instance
OneToken == op = "consume" /\ Len(chunk) = 1 /\ prev.started /\ ~was_closed
            /\ ~prev.released
\* the state machine event of that character
Token == Upper(TokenName(chunk[1]))

\* the last call fired a literal from the lexer while the JSONStreamer had
\* an open container
LiteralStep == OneToken /\ NewL # <<>> /\ NewL[1].name = "LITERAL" /\ prev.stack # <<>>

\* C4: a literal that arrives while the top of the composite stack is OBJECT
\* is fired as value when pending_value is set (and pending_value is then
\* clear), as key when it is clear and the literal is a STRING (and
\* pending_value is then set), and raises without any event when it is clear
\* and the literal is not a STRING; while the top is ARRAY it is fired as
\* element and pending_value keeps its value.
C4_LiteralMapping ==
    LiteralStep =>
        LET lit == NewL[1]
            only == Len(NewL) = 1
        IN IF Top(prev.stack) = "OBJECT"
           THEN IF prev.pending_value
                THEN /\ NewS # <<>> /\ NewS[1] = Ev("value", <<lit.args[2]>>)
                     /\ only => ~p.pending_value
                ELSE IF lit.args[1] = LiteralType("STRING")
                     THEN /\ NewS # <<>> /\ NewS[1] = Ev("key", <<lit.args[2]>>)
                          /\ only => p.pending_value
                     ELSE NewS = <<>> /\ p.exc.type = "AssertionError"
           ELSE /\ NewS # <<>> /\ NewS[1] = Ev("element", <<lit.args[2]>>)
                /\ only => p.pending_value = prev.pending_value

C4_WitnessValue ==
    LiteralStep /\ Top(prev.stack) = "OBJECT" /\ prev.pending_value
    /\ NewS # <<>> /\ NewS[1].name = "value" /\ ~p.pending_value

C4_WitnessNonStringKey ==
    LiteralStep /\ Top(prev.stack) = "OBJECT" /\ ~prev.pending_value
    /\ p.exc.type = "AssertionError"

C4_WitnessElement ==
    LiteralStep /\ Top(prev.stack) = "ARRAY" /\ prev.pending_value
    /\ Len(NewL) = 1 /\ NewS[1].name = "element" /\ p.pending_value

\* C5: once consume has been called on an instance that was not closed, the
\* first event of the JSONStreamer is doc_start; before that no event has
\* been fired; and doc_start is never fired a second time.
C5_DocStartOnce ==
    /\ consumed => (p.sevents # <<>> /\ p.sevents[1].name = "doc_start")
    /\ ~consumed => p.sevents = <<>>
    /\ Count(p.sevents, "doc_start") <= 1

C5_Witness ==
    /\ op = "consume" /\ prev.sevents # <<>> /\ NewS # <<>>
    /\ Count(p.sevents, "doc_start") = 1

\* C6: a single call of close(), after any number of consume calls, fires
\* doc_end exactly once, as the last event of the instance.
C6_CloseFiresDocEnd ==
    (op = "close" /\ ncloses = 1) =>
        /\ Count(p.sevents, "doc_end") = 1
        /\ p.sevents[Len(p.sevents)].name = "doc_end"

\* C7: whatever consume and close calls are made, doc_end is fired at most
\* once by an instance.
C7_AtMostOneDocEnd == Count(p.sevents, "doc_end") <= 1

C7_Witness == ncloses = 2 /\ op = "close" /\ Count(p.sevents, "doc_end") = 1

\* C8: a consume call made after close() has returned raises, fires no
\* event at any layer and leaves the lexer and the accumulator as they were.
C8_ConsumeAfterClose ==
    (op = "consume" /\ was_closed) =>
        /\ Raised(p)
        /\ NewL = <<>> /\ NewS = <<>> /\ NewO = <<>>
        /\ p.cur = prev.cur /\ p.acc = prev.acc

C8_Witness ==
    op = "consume" /\ was_closed /\ chunk # <<>> /\ p.exc.type = "AttributeError"

\* C9: a token for which the current lexer state declares no transition, no
\* self-loop and no ignore rule raises an error that names the token and
\* the state, fires no event and leaves the state machine where it was.
C9_UndeclaredIsFault ==
    (OneToken /\ Can(prev.cur, Token) = <<>> /\ Token \notin Ignored(prev.cur)) =>
        /\ p.exc.type = "RuntimeError"
        /\ p.exc.event = Token
        /\ p.exc.state = prev.cur
        /\ p.cur = prev.cur
        /\ NewL = <<>> /\ NewS = <<>> /\ NewO = <<>>

\* a token the state lists as faulty
C9_WitnessFaulty ==
    OneToken /\ Token \in Faults(prev.cur) /\ Can(prev.cur, Token) = <<>>
    /\ p.exc.kind = "faulty_event"

\* a token the state does not declare at all
C9_WitnessUndeclared ==
    OneToken /\ Token \notin Faults(prev.cur) /\ Can(prev.cur, Token) = <<>>
    /\ Token \notin Ignored(prev.cur) /\ p.exc.kind = "cannot_be_processed"

\* the last call was consume of one character that reached the lexer in
\* state doc_start: the first call of an instance, which sends the start
\* event before the character, or a later call made in that state
FirstCall == ~prev.started /\ prev.cur = "NEW"
AtDocStart ==
    /\ op = "consume" /\ Len(chunk) = 1 /\ ~was_closed /\ ~prev.released
    /\ FirstCall \/ (prev.started /\ prev.cur = "DOC_START")

\* the events of the last call after the doc_start of a first call
AfterDocStart(evs) == IF FirstCall /\ evs # <<>> THEN Tail(evs) ELSE evs

\* C14: in state doc_start `{` moves the lexer to object_start and `[` to
\* array_start, whitespace and newline leave it in doc_start without any
\* event, and every other token raises a fault that names doc_start, leaves
\* the state alone and fires no event after doc_start
C14_DocStart ==
    AtDocStart =>
        CASE Token = "LBRACE" ->
                 /\ ~Raised(p) /\ p.cur = "OBJECT_START"
                 /\ AfterDocStart(NewL) = <<Ev("OBJECT_START", <<>>)>>
          [] Token = "LSQUARE" ->
                 /\ ~Raised(p) /\ p.cur = "ARRAY_START"
                 /\ AfterDocStart(NewL) = <<Ev("ARRAY_START", <<>>)>>
          [] Token \in {"WHITESPACE", "NEWLINE"} ->
                 /\ ~Raised(p) /\ p.cur = "DOC_START"
                 /\ AfterDocStart(NewL) = <<>> /\ AfterDocStart(NewS) = <<>>
          [] OTHER ->
                 /\ p.exc.type = "RuntimeError"
                 /\ p.exc.kind \in {"faulty_event", "cannot_be_processed"}
                 /\ p.exc.event = Token /\ p.exc.state = "DOC_START"
                 /\ p.cur = "DOC_START"
                 /\ AfterDocStart(NewL) = <<>> /\ AfterDocStart(NewS) = <<>>
                 /\ NewO = <<>>

\* a first call whose only character is a quote
C14_Witness ==
    /\ AtDocStart /\ FirstCall /\ Token = "DBLQUOTE"
    /\ Raised(p) /\ p.levents = <<Ev("DOC_START", <<>>)>>

\* a brace after leading white space
C14_WitnessBrace ==
    /\ AtDocStart /\ ~FirstCall /\ Token = "LBRACE" /\ p.cur = "OBJECT_START"

\* C19: an ObjectStreamer never fires both an object_stream_* and an
\* array_stream_* event, and it fires object_stream_end only after
\* object_stream_start and array_stream_end only after array_stream_start
C19_RootStreamExclusive ==
    /\ ~ /\ Count(p.oevents, "object_stream_start") + Count(p.oevents, "object_stream_end") > 0
         /\ Count(p.oevents, "array_stream_start") + Count(p.oevents, "array_stream_end") > 0
    /\ \A i \in 1..Len(p.oevents) :
          /\ p.oevents[i].name = "object_stream_end" =>
                \E j \in 1..(i - 1) : p.oevents[j].name = "object_stream_start"
          /\ p.oevents[i].name = "array_stream_end" =>
                \E j \in 1..(i - 1) : p.oevents[j].name = "array_stream_start"

\* a colon arrives after a string that is an array element or the value of
\* an object member
ColonAfterNonKey ==
    /\ op = "consume" /\ Len(chunk) = 1 /\ Token = "COLON"
    /\ ~was_closed /\ ~prev.released
    /\ prev.cur = "STRING_END"
    /\ prev.stack # <<>>
    /\ Top(prev.stack) = "ARRAY" \/ prev.pending_value

\* C20: a colon after a string that is not an object key makes consume
\* raise the fault of the state machine, and no event is fired for it
C20_ColonOutsideKey ==
    ColonAfterNonKey =>
        /\ p.exc.type = "RuntimeError"
        /\ p.exc.kind \in {"faulty_event", "cannot_be_processed"}
        /\ NewL = <<>> /\ NewS = <<>> /\ NewO = <<>>

\* containers the lexer has opened and not closed
OpenInLexer(evs) ==
    Count(evs, "OBJECT_START") + Count(evs, "ARRAY_START")
      - Count(evs, "OBJECT_END") - Count(evs, "ARRAY_END")

\* a closing bracket arrives when every container that was opened is closed
CloserWithNothingOpen ==
    /\ OneToken /\ Token \in {"RBRACE", "RSQUARE"}
    /\ prev.cur \in {"OBJECT_END", "ARRAY_END"}
    /\ OpenInLexer(prev.levents) = 0

\* C21: a } or ] that arrives when no container is open makes the lexer
\* raise the fault of the state machine, and no OBJECT_END or ARRAY_END
\* (object_end, array_end) is fired for it
C21_UnbalancedCloser ==
    CloserWithNothingOpen =>
        /\ p.exc.type = "RuntimeError"
        /\ p.exc.kind \in {"faulty_event", "cannot_be_processed"}
        /\ NewL = <<>> /\ NewS = <<>>

\* the call before the last one was a consume that raised a fault of the
\* state machine or an invalid literal
PreviousFaulted ==
    /\ prev.exc.type = "RuntimeError"
    /\ prev.exc.kind \in {"faulty_event", "cannot_be_processed", "invalid_literal"}
    /\ prev.exc.event # "END"

\* C23: a consume call on an instance whose previous consume raised a fault
\* fires no event in any layer and leaves the lexer where it was
C23_UnusableAfterFault ==
    op = "consume" /\ PreviousFaulted =>
        /\ NewL = <<>> /\ NewS = <<>> /\ NewO = <<>>
        /\ p.cur = prev.cur

\* one token arrives while the lexer is in string_escaping
EscapedToken == OneToken /\ prev.cur = "STRING_ESCAPING"

\* C27 as stated: from string_escaping every token returns the lexer to
\* string_start and is consumed as part of the string without a fault
C27_EscapeAnyToken ==
    EscapedToken =>
        /\ ~Raised(p)
        /\ p.cur = "STRING_START"
        /\ prev.escaping => p.acc = prev.acc \o <<"\\">> \o chunk
        /\ NewL = <<>>

\* C27: from string_escaping a char, a " or a \ returns the lexer to
\* string_start and is consumed as part of the string (the accumulator
\* takes it, after the backslash it still holds back); { } [ ] , : space
\* and newline raise the fault of the state machine, the lexer stays in
\* string_escaping and nothing is fired
C27_EscapeDeclaredTokens ==
    EscapedToken =>
        IF Token \in {"CHAR", "DBLQUOTE", "BACKSLASH"}
        THEN /\ ~Raised(p)
             /\ p.cur = "STRING_START"
             /\ prev.escaping => p.acc = prev.acc \o <<"\\">> \o chunk
             /\ NewL = <<>>
        ELSE /\ p.exc.type = "RuntimeError"
             /\ p.exc.kind = "faulty_event"
             /\ p.cur = "STRING_ESCAPING"
             /\ NewL = <<>>

\* an escaped " went into the string
C27_Witness ==
    /\ EscapedToken /\ Token = "DBLQUOTE"
    /\ p.cur = "STRING_START" /\ ~Raised(p)

\* a { after a backslash raised
C27_WitnessFault ==
    /\ EscapedToken /\ Token = "LBRACE"
    /\ Raised(p) /\ p.cur = "STRING_ESCAPING"

\* C29: a close() on an instance that has consumed input and has not been
\* closed yet releases the tokenizer, the text accumulator and the state
\* machine and drives the end transition, whatever the state of the parse
C29_CloseAlwaysReleases ==
    (op = "close" /\ consumed /\ ~was_closed) =>
        /\ p.released
        /\ ~p.started
        /\ Count(NewL, "DOC_END") = 1

\* C17: a caller that uses the instance as a scoped resource, consume in
\* the body and close() as the one release (try: ... finally: close()):
\* when a consume of the body has raised, the release delivers doc_end to
\* the listeners, as the only event of the call, and releases the lexer and
\* the stack
C17_ScopedRelease ==
    (op = "close" /\ ncloses = 1 /\ Raised(prev)) =>
        /\ NewS = <<Ev("doc_end", <<>>)>>
        /\ p.lexer_none /\ p.stack_none

\* the last call drove a transition into doc_end: the end event arrived in
\* a state that takes it there
EnteredDocEnd ==
    /\ op = "close" /\ prev.started /\ ~prev.released /\ ~prev.lexer_none
    /\ Can(prev.cur, "END") # <<>>

\* C30: after every consume and close call the lexer is not in doc_end; a
\* call that enters doc_end fires DOC_END last, leaves the state machine in
\* new and clears the started flag
C30_NeverRestsInDocEnd ==
    /\ p.cur # "DOC_END"
    /\ EnteredDocEnd =>
          /\ NewL # <<>> /\ NewL[Len(NewL)].name = "DOC_END"
          /\ Count(NewL, "DOC_END") = 1
          /\ p.cur = "NEW"
          /\ ~p.started
    /\ Count(NewL, "DOC_END") > 0 => EnteredDocEnd

\* a close() after a whole array ended the document
C30_Witness ==
    /\ EnteredDocEnd /\ prev.cur = "ARRAY_END"
    /\ p.cur = "NEW" /\ ~p.started /\ Count(p.levents, "DOC_END") = 1

\* the closing quote of a string arrives: a " that takes the lexer from
\* string_start to string_end
ClosingQuote ==
    /\ OneToken /\ Token = "DBLQUOTE"
    /\ prev.cur = "STRING_START" /\ p.cur = "STRING_END"
    /\ ~Raised(p)

\* C26: the call that consumes the closing quote of a string fires the
\* STRING literal of the lexer, and in a JSONStreamer the key, value or
\* element event of that string, before it returns
C26_StringAtClosingQuote ==
    ClosingQuote =>
        /\ Len(NewL) = 1 /\ NewL[1].name = "LITERAL"
        /\ NewL[1].args[1] = LiteralType("STRING")
        /\ p.kind # "lexer" =>
               Len(NewS) = 1 /\ NewS[1].name \in {"key", "value", "element"}

\* containers the JSONStreamer has announced open and not announced closed
OpenInStreamer(evs) ==
    Count(evs, "object_start") + Count(evs, "array_start")
      - Count(evs, "object_end") - Count(evs, "array_end")

\* the last token made the lexer fire a closing event and the JSONStreamer
\* could not pop its stack
PopOnEmptyStack ==
    /\ op = "consume" /\ NewL # <<>>
    /\ NewL[Len(NewL)].name \in {"OBJECT_END", "ARRAY_END"}
    /\ p.exc.type = "IndexError"

\* C31: until close() the stack of the JSONStreamer is as long as the
\* containers it has announced open and not closed, and no closing event
\* finds the stack empty
C31_StackIsDepth ==
    ~p.stack_none =>
        /\ Len(p.stack) = OpenInStreamer(p.sevents)
        /\ ~PopOnEmptyStack

\* the ObjectStreamer has opened its root stream and has not ended it
RootOpen ==
    /\ p.kind = "object"
    /\ p.root # "None"
    /\ Count(p.oevents, "object_stream_end") + Count(p.oevents, "array_stream_end") = 0

\* C32: while the root is open _obj_stack holds the open containers but
\* the root, one fewer than the stack of the wrapped JSONStreamer; the root
\* is set by the first object_start or array_start, which pushes nothing
C32_RootNotStacked ==
    /\ RootOpen /\ ~p.stack_none => Len(p.obj_stack) = Len(p.stack) - 1
    /\ p.kind = "object" /\ p.sevents # <<>> =>
          /\ p.root = "None" <=>
                Count(p.sevents, "object_start") + Count(p.sevents, "array_start") = 0
          /\ Count(p.oevents, "object_stream_start")
               + Count(p.oevents, "array_stream_start") <= 1

\* inside {"a":{ the root is open and one nested map is stacked
C32_Witness ==
    /\ RootOpen /\ p.root = "OBJECT"
    /\ Len(p.stack) = 2 /\ p.obj_stack = <<PyDict(<<>>)>>

\* the last call handed over one character for which the JSONStreamer
\* fired the closing event name
Closed(name) ==
    /\ op = "consume" /\ Len(chunk) = 1
    /\ NewS # <<>> /\ NewS[Len(NewS)].name = name

\* C37: an object_end of the JSONStreamer pops an OBJECT from its stack and
\* an array_end an ARRAY: the closing character matches the innermost open
\* container
C37_CloserMatchesInnermost ==
    /\ Closed("object_end") =>
          prev.stack # <<>> /\ Top(prev.stack) = "OBJECT" /\ p.stack = Pop(prev.stack)
    /\ Closed("array_end") =>
          prev.stack # <<>> /\ Top(prev.stack) = "ARRAY" /\ p.stack = Pop(prev.stack)

\* the state machine rejected the one character of the last call
Rejected ==
    /\ OneToken
    /\ p.exc.type = "RuntimeError"
    /\ p.exc.kind \in {"faulty_event", "cannot_be_processed"}
    /\ p.exc.event = Token

\* C39: a token the state machine rejects leaves the state of the lexer,
\* the stack and pending_value of the JSONStreamer and the two stacks of
\* the ObjectStreamer as they were, and no layer fires an event for it
C39_RejectedChangesNothing ==
    Rejected =>
        /\ p.cur = prev.cur /\ p.started = prev.started
        /\ p.stack = prev.stack /\ p.pending_value = prev.pending_value
        /\ p.key_stack = prev.key_stack /\ p.obj_stack = prev.obj_stack
        /\ p.root = prev.root
        /\ NewL = <<>> /\ NewS = <<>> /\ NewO = <<>>

\* a : was rejected inside {"a":[ with a key pending and a list stacked
C39_Witness ==
    /\ Rejected /\ Token = "COLON"
    /\ p.kind = "object"
    /\ p.stack = <<"OBJECT", "ARRAY">>
    /\ p.key_stack = <<PyStr(<<"a">>)>> /\ Len(p.obj_stack) = 1

(***************************************************************************)
(* Callers that hand one text over in parts.  A caller stops at the first  *)
(* exception a consume call raises.                                        *)
(***************************************************************************)
\* longest part handed to one consume call
MaxPart == 3
\* longest text of TextsUpTo
MaxText == 3

ChunkAlphabet == {"[", "]", "{", "}", "\"", ",", ":", "1", "\\"}

\* every text over ChunkAlphabet of at most n characters
TextsUpTo(n) == UNION {[1..k -> ChunkAlphabet] : k \in 0..n}

\* texts whose strings, literals, escapes and errors fall across parts
ChunkDocs ==
    { <<"[", "\"", "a", "b", "\"", "]">>,
      <<"[", "\"", "a", "b", "\"", ",", "1", "2", ".", "5", "]">>,
      <<"{", "\"", "k", "e", "y", "\"", " ", ":", " ", "t", "r", "u", "e", "}">>,
      <<"[", "n", "u", "l", "l", ",", " ", "-", "1", "e", "2", " ", "]">>,
      <<"{", "\"", "a", "\"", ":", "[", "\"", "x", "\\", "\"", "y", "\"", "]", "}">>,
      <<"[", "[", "1", "]", ",", "{", "\"", "a", "\"", ":", "{", "}", "}", "]">>,
      <<"[", "t", "r", "u", "e", "x", ",", "1", "]">>,
      <<"{", "\"", "a", "\"", "1", "}">>,
      <<"[", "\"", "a", ",", "]", "{", "\"", ",", "\n", "1", "]">> }

InitChunk == InitCaller(Kinds, ChunkDocs \cup TextsUpTo(MaxText))

\* the caller hands over the next k characters of its text; an empty part
\* is not handed over twice in a row
Part(k) ==
    /\ ~Raised(p)
    /\ k = 0 => chunk # <<>> \/ op = "new"
    /\ Feed(k)

NextChunk == \E k \in 0..MaxPart : Part(k)

SpecChunk == InitChunk /\ [][NextChunk]_vars

\* the events of the three layers and the exception of the last call
Outcome(q) == <<q.levents, q.sevents, q.oevents, q.exc>>

\* C1: when a caller has handed a whole text over in parts, or a part has
\* raised, each layer has fired the events (names and payloads) and the call
\* has ended as one consume call of the whole text on a new instance does,
\* whatever the listener order of that instance
C1_ChunkInvariance ==
    op = "consume" /\ (pos = Len(doc) \/ Raised(p))
        => \A af \in BOOLEAN : Outcome(p) = Outcome(Consume(NewParser(p.kind, af), doc))

\* a string that began in an earlier part is emitted whole by the last part
C1_Witness ==
    /\ op = "consume" /\ pos = Len(doc) /\ ~Raised(p)
    /\ Len(chunk) < Len(doc)
    /\ prev.cur = "STRING_START" /\ prev.acc # <<>>
    /\ Count(p.levents, "LITERAL") = 1
    /\ \E i \in 1..Len(p.levents) :
          p.levents[i] = Ev("LITERAL", <<LiteralType("STRING"), PyStr(<<"a", "b">>)>>)

\* s is the beginning of t
StartsWith(t, s) == Len(s) <= Len(t) /\ SubSeq(t, 1, Len(s)) = s

\* every layer has fired a beginning of the events of q
DeliveredSoFar(q) ==
    /\ StartsWith(q.levents, p.levents)
    /\ StartsWith(q.sevents, p.sevents)
    /\ StartsWith(q.oevents, p.oevents)

\* C36: after each part of a text every layer has fired a beginning of the
\* events one consume call of the whole text fires, the events of the parts
\* before are still there, and when a part raises, the events up to the
\* failing character have all been fired
C36_IncrementalDelivery ==
    /\ \A af \in BOOLEAN : DeliveredSoFar(Consume(NewParser(p.kind, af), doc))
    /\ StartsWith(p.levents, prev.levents)
    /\ StartsWith(p.sevents, prev.sevents)
    /\ StartsWith(p.oevents, prev.oevents)
    /\ Raised(p) =>
          \A af \in BOOLEAN : Outcome(p) = Outcome(Consume(NewParser(p.kind, af), doc))

\* [ then ]] : the second part raised on its second character, and the
\* array_end of its first character has been fired
C36_Witness ==
    /\ Raised(p) /\ doc = <<"[", "]", "]">> /\ chunk = <<"]", "]">>
    /\ p.kind = "json"
    /\ prev.sevents = <<Ev("doc_start", <<>>), Ev("array_start", <<>>)>>
    /\ NewS = <<Ev("array_end", <<>>)>>

\* a text consumed half way, part of its events fired
C36_WitnessPrefix ==
    /\ op = "consume" /\ ~Raised(p) /\ pos < Len(doc)
    /\ p.kind = "object" /\ Len(p.oevents) = 2
    /\ Len(Consume(NewParser(p.kind, TRUE), doc).oevents) > 2

\* the instance q with the other order of the two listeners of the tokenizer
OtherOrder(q) == [q EXCEPT !.accFirst = ~@]

\* C38: when no part has raised, the part just consumed leaves the
\* instance, its events and its accumulated text included, as it would with
\* the text accumulator and the state machine called in the other order
C38_ListenerOrder ==
    op = "consume" /\ ~Raised(p) => OtherOrder(Consume(OtherOrder(prev), chunk)) = p

\* a part with the comma after the string "ab" and a 1: the state machine
\* popped the string for the comma, the accumulator holds the 1
C38_Witness ==
    /\ op = "consume" /\ ~Raised(p)
    /\ prev.cur = "STRING_END" /\ p.cur = "LITERAL" /\ p.acc = <<"1">>
    /\ NewL = <<Ev("LITERAL", <<LiteralType("STRING"), PyStr(<<"a", "b">>)>>)>>

(***************************************************************************)
(* Callers that feed one bare literal in a value position, character by    *)
(* character or in longer parts, up to the token that closes it.           *)
(***************************************************************************)
\* longest generated literal text
MaxLit == 3

LitAlphabet == {"t", "1", "-", ".", "e"}

\* the three literal words and near misses of them
LitWords == { <<"t", "r", "u", "e">>, <<"f", "a", "l", "s", "e">>, <<"n", "u", "l", "l">>,
              <<"T", "r", "u", "e">>, <<"N", "U", "L", "L">>, <<"n", "u", "l">>,
              <<"t", "r", "u", "e", "e">>, <<"t", "r", " ", "u", "e">>,
              <<"1", "e", "+", "1", "0">>, <<"0", "x", "1">>, <<" ", "1", " ">>,
              <<"1", " ", "1">>, <<"-", "1", "2", "3">>, <<"-", "1", "2", ".", "5">>,
              <<"1", "e", "1", "0">>, <<"0">>, <<"+", "7">>, <<"1", "E", "-", "2">>,
              <<"1", "\f">> }

LitTexts == LitWords \cup UNION {[1..k -> LitAlphabet] : k \in 1..MaxLit}

\* what precedes the literal: the start of an array, the start of a member
LitOpeners == { <<"[">>, <<"{", "\"", "a", "\"", ":">> }

LitClosers == { <<",">>, <<"}">>, <<"]">> }

LitDocs == {o \o l \o c : o \in LitOpeners, l \in LitTexts, c \in LitClosers}

\* the caller holds an ObjectStreamer, so that all three layers are at work
InitLit == InitCaller({"object"}, LitDocs)

NextLit == \E k \in 1..MaxChunk : Part(k)

SpecLit == InitLit /\ [][NextLit]_vars

\* the words _Lexer._true, _Lexer._false, _Lexer._null
LiteralWords == { <<"t", "r", "u", "e">>, <<"f", "a", "l", "s", "e">>, <<"n", "u", "l", "l">> }

\* the last call was one token that closed a bare literal whose text is
\* neither a number nor one of the three words
InvalidLiteralClosed ==
    /\ OneToken /\ prev.cur = "LITERAL"
    /\ Token \in {"COMMA", "RBRACE", "RSQUARE"}
    /\ ~_number_pattern(p.last_literal)
    /\ p.last_literal \notin LiteralWords

\* C10: when the token that closes a bare literal is `,`, `}` or `]` and the
\* text of the literal matches neither the number pattern nor true, false
\* or null, the call raises the invalid-literal error and no layer fires
\* any event
C10_InvalidLiteral ==
    InvalidLiteralClosed =>
        /\ p.exc.type = "RuntimeError" /\ p.exc.kind = "invalid_literal"
        /\ p.exc.text = p.last_literal
        /\ NewL = <<>> /\ NewS = <<>> /\ NewO = <<>>

\* True, with a capital, closed by a brace in a value position
C10_Witness ==
    /\ InvalidLiteralClosed
    /\ p.last_literal = <<"T", "r", "u", "e">>
    /\ Token = "RBRACE"
    /\ p.exc.kind = "invalid_literal"
    /\ prev.pending_value

\* the text has a decimal point or an exponent marker
HasPointOrExponent(s) == \E i \in 1..Len(s) : s[i] \in {".", "e", "E"}

\* the doubles -12.5 = -25 * 2^-1 and 1e10 = 9765625 * 2^10
Float_m12_5 == PyFloat(-1, <<"2", "5">>, -1)

Float_1e10 == PyFloat(1, <<"9", "7", "6", "5", "6", "2", "5">>, 10)

\* the last call was one token that closed a bare literal whose text matches
\* the number pattern
NumberClosed ==
    /\ OneToken /\ prev.cur = "LITERAL"
    /\ Token \in {"COMMA", "RBRACE", "RSQUARE"}
    /\ _number_pattern(p.last_literal)

\* C11: a bare literal that matches the number pattern is fired as a NUMBER
\* literal, and reaches the listeners of the JSONStreamer, with an int value
\* when its text has neither `.` nor `e`/`E` and with a float value
\* otherwise; -123 is the int -123, 0 the int 0, -12.5 and 1e10 are floats
C11_NumberTyping ==
    NumberClosed =>
        /\ NewL # <<>> /\ NewL[1].name = "LITERAL"
        /\ NewL[1].args[1] = LiteralType("NUMBER")
        /\ NewL[1].args[2].t = (IF HasPointOrExponent(p.last_literal) THEN "float" ELSE "int")
        /\ NewS # <<>> /\ NewS[1].name \in {"value", "element"}
        /\ NewS[1].args = <<NewL[1].args[2]>>
        /\ p.last_literal = <<"-", "1", "2", "3">> => NewL[1].args[2] = PyInt(-123)
        /\ p.last_literal = <<"0">> => NewL[1].args[2] = PyInt(0)
        /\ p.last_literal = <<"-", "1", "2", ".", "5">> => NewL[1].args[2] = Float_m12_5
        /\ p.last_literal = <<"1", "e", "1", "0">> => NewL[1].args[2] = Float_1e10

\* -123 closed as a member value
C11_Witness ==
    /\ NumberClosed
    /\ p.last_literal = <<"-", "1", "2", "3">>
    /\ NewS = <<Ev("value", <<PyInt(-123)>>), Ev("object_end", <<>>)>>

\* 1e10 closed as an array element
C11_WitnessFloat ==
    /\ NumberClosed
    /\ p.last_literal = <<"1", "e", "1", "0">>
    /\ NewS[1] = Ev("element", <<Float_1e10>>)

(***************************************************************************)
(* A caller whose text is an array of one integer with one digit more than *)
(* int() converts, handed over one character or LongPart characters at a   *)
(* time.                                                                   *)
(***************************************************************************)
LongPart == 100

LongDoc == <<"[">> \o [i \in 1..(int_max_str_digits + 1) |-> "9"] \o <<"]">>

InitLong == InitCaller({"object"}, {LongDoc})

NextLong == Part(1) \/ Part(LongPart)

SpecLong == InitLong /\ [][NextLong]_vars

(***************************************************************************)
(* Callers that feed an ObjectStreamer a well-formed document written from *)
(* a value val, whole or with a short first part.                          *)
(***************************************************************************)
\* most members of a root container
MaxWidth == 2

\* every sequence over S of at most n items
SeqsUpTo(S, n) == UNION {[1..k -> S] : k \in 0..n}

MemberKeys == <<"a", "b", "c", "d">>

\* the lists and the dicts (keys a, b, ... in this order) of at most n
\* members over S
ListsOver(S, n) == {PyList(vs) : vs \in SeqsUpTo(S, n)}
DictsOver(S, n) ==
    {PyDict([i \in 1..Len(vs) |-> <<PyStr(<<MemberKeys[i]>>), vs[i]>>]) : vs \in SeqsUpTo(S, n)}

Scalars == {PyInt(1), PyStr(<<"s">>), PyStr(<<"x", "]", "y">>)}

\* values nested one and two levels deep
Nested1 == Scalars \cup ListsOver(Scalars, 1) \cup DictsOver(Scalars, 1)
Nested2 == Scalars \cup ListsOver(Nested1, 1) \cup DictsOver(Nested1, 1)

\* values with more than one member at an inner level
Wide == { PyList(<<PyInt(1), PyList(<<PyStr(<<"s">>), PyInt(2)>>), PyNone>>),
          PyDict(<< <<PyStr(<<"a">>), PyBool(TRUE)>>,
                    <<PyStr(<<"b">>), PyDict(<< <<PyStr(<<"a">>), PyList(<<>>)>>,
                                                <<PyStr(<<"b">>), PyInt(2)>> >>)>> >>) }

\* ["a",2,true,{"apple":"fruit"}]
MixedArray ==
    PyList(<<PyStr(<<"a">>), PyInt(2), PyBool(TRUE),
             PyDict(<< <<PyStr(<<"a", "p", "p", "l", "e">>),
                         PyStr(<<"f", "r", "u", "i", "t">>)>> >>)>>)

\* the root values of at most n members
RootValues(n) ==
    ListsOver(Nested2 \cup Wide, n) \cup DictsOver(Nested2 \cup Wide, n) \cup {MixedArray}

\* a, b, c joined
Join3(a, b, c) == a \o b \o c

\* the JSON text of a scalar
ScalarText(v) ==
    CASE v.t = "str" -> Join3(<<"\"">>, v.s, <<"\"">>)
      [] v.t = "int" -> IF v.n = 1 THEN <<"1">> ELSE <<"2">>
      [] v.t = "bool" -> IF v.b THEN <<"t", "r", "u", "e">> ELSE <<"f", "a", "l", "s", "e">>
      [] v.t = "None" -> <<"n", "u", "l", "l">>

\* the JSON text of a value, without white space
RECURSIVE Serialize(_)
RECURSIVE SerializeItems(_, _)
SerializeItems(v, i) ==
    IF i > Len(v.items) THEN <<>>
    ELSE Join3(IF i > 1 THEN <<",">> ELSE <<>>,
               IF v.t = "dict"
               THEN Join3(ScalarText(v.items[i][1]), <<":">>, Serialize(v.items[i][2]))
               ELSE Serialize(v.items[i]),
               SerializeItems(v, i + 1))

Serialize(v) ==
    CASE v.t = "list" -> Join3(<<"[">>, SerializeItems(v, 1), <<"]">>)
      [] v.t = "dict" -> Join3(<<"{">>, SerializeItems(v, 1), <<"}">>)
      [] OTHER -> ScalarText(v)

InitObj ==
    /\ val \in RootValues(MaxWidth)
    /\ doc = Serialize(val)
    /\ InitCall({"object"})

\* the caller hands over all that is left of its text
FeedRest ==
    /\ ~Raised(p)
    /\ pos < Len(doc)
    /\ Feed(Len(doc) - pos)

\* the caller begins with a short part
FeedFirst(k) ==
    /\ pos = 0
    /\ k < Len(doc)
    /\ Feed(k)

NextObj ==
    \/ FeedRest
    \/ \E k \in 1..MaxPart : FeedFirst(k)

SpecObj == InitObj /\ [][NextObj]_vars

\* the events an ObjectStreamer owes for a root object and for a root array
PairEvents(v) ==
    [i \in 1..Len(v.items) |-> Ev("pair", <<PyTuple(v.items[i][1], v.items[i][2])>>)]
ElementEvents(v) == [i \in 1..Len(v.items) |-> Ev("element", <<v.items[i]>>)]

\* the whole text has been consumed
Parsed == op = "consume" /\ pos = Len(doc)

\* C2: when the whole text of a root object has been consumed the
\* ObjectStreamer has fired object_stream_start, then one pair(key, value)
\* per member of the root in order, value being the member's value with its
\* nested dicts and lists, then object_stream_end, and nothing else
C2_RootObjectPairs ==
    Parsed /\ val.t = "dict"
        => /\ ~Raised(p)
           /\ p.oevents = Join3(<<Ev("object_stream_start", <<>>)>>, PairEvents(val),
                                <<Ev("object_stream_end", <<>>)>>)

\* C3: when the whole text of a root array has been consumed the
\* ObjectStreamer has fired array_stream_start, then one element(value) per
\* item of the root in order, then array_stream_end, and nothing else: two
\* events more than the root has items
C3_RootArrayElements ==
    Parsed /\ val.t = "list"
        => /\ ~Raised(p)
           /\ p.oevents = Join3(<<Ev("array_stream_start", <<>>)>>, ElementEvents(val),
                                <<Ev("array_stream_end", <<>>)>>)
           /\ Len(p.oevents) = Len(val.items) + 2

(***************************************************************************)
(* Callers that feed an ObjectStreamer one string as an array element, as  *)
(* a member value or as a key, up to the token after its closing quote;    *)
(* val is the pair of that position and the text between the quotes.       *)
(***************************************************************************)
\* longest text between the quotes
MaxStr == 3

StrAlphabet == {"a", " ", "\\", "\"", "{", "]", ",", ":"}

StrContents == UNION {[1..k -> StrAlphabet] : k \in 0..MaxStr}

StrPositions == {"element", "value", "key"}

\* the text that puts the string c at a position, with the token after it
StrDoc(position, c) ==
    CASE position = "element" -> Join3(<<"[", "\"">>, c, <<"\"", "]">>)
      [] position = "value" -> Join3(<<"{", "\"", "k", "\"", ":", "\"">>, c, <<"\"", "}">>)
      [] position = "key" -> Join3(<<"{", "\"">>, c, <<"\"", ":">>)

InitStr ==
    /\ val \in {PyTuple(PyStr(<<pn>>), PyStr(c)) : pn \in StrPositions, c \in StrContents}
    /\ doc = StrDoc(val.k.s[1], val.v.s)
    /\ InitCall({"object"})

NextStr ==
    \/ FeedRest
    \/ \E k \in 1..MaxChunk : FeedFirst(k)

SpecStr == InitStr /\ [][NextStr]_vars

\* the values of the STRING literals the lexer has fired
RECURSIVE StringsFired(_)
StringsFired(evs) ==
    IF evs = <<>> THEN <<>>
    ELSE IF Head(evs).name = "LITERAL" /\ Head(evs).args[1] = LiteralType("STRING")
         THEN <<Head(evs).args[2]>> \o StringsFired(Tail(evs))
         ELSE StringsFired(Tail(evs))

\* the string c has been emitted, by the lexer and by the JSONStreamer, at
\* the position the text put it
EmittedAs(position, c) ==
    /\ ~Raised(p)
    /\ StringsFired(p.levents) =
           (IF position = "value" THEN <<PyStr(<<"k">>), PyStr(c)>> ELSE <<PyStr(c)>>)
    /\ \E i \in 1..Len(p.sevents) : p.sevents[i] = Ev(position, <<PyStr(c)>>)
    /\ Count(p.sevents, position) = 1

\* c is made of ordinary characters, spaces and the escapes \", \\ and
\* backslash-ordinary character
RECURSIVE OnlyEscapes(_)
OnlyEscapes(c) ==
    IF c = <<>> THEN TRUE
    ELSE IF c[1] = "\\"
         THEN /\ Len(c) >= 2 /\ c[2] \in {"\"", "\\", "a"}
              /\ OnlyEscapes(SubSeq(c, 3, Len(c)))
         ELSE c[1] \in {"a", " "} /\ OnlyEscapes(Tail(c))

HasEscape(c) == \E i \in 1..Len(c) : c[i] = "\\"

\* C12: a string made of ordinary characters and of the escapes \", \\ and
\* backslash-ordinary character is emitted once the token after it is
\* consumed, with every escape verbatim (backslash kept), without its
\* surrounding quotes, and an escaped quote does not end it
C12_EscapesVerbatim ==
    Parsed /\ HasEscape(val.v.s) /\ OnlyEscapes(val.v.s) => EmittedAs(val.k.s[1], val.v.s)

\* the member value \"a
C12_Witness ==
    /\ Parsed /\ val = PyTuple(PyStr(<<"value">>), PyStr(<<"\\", "\"", "a">>))
    /\ EmittedAs("value", <<"\\", "\"", "a">>)
    /\ pos > Len(chunk)

\* c has no quote and no backslash
PlainContent(c) == \A i \in 1..Len(c) : c[i] \notin {"\"", "\\"}

\* C13: a string with no quote and no backslash in it is emitted with every
\* character between its quotes, in order: the structural characters
\* { } [ ] , : and leading, inner and trailing spaces included
C13_ContentPreserved ==
    Parsed /\ PlainContent(val.v.s) => EmittedAs(val.k.s[1], val.v.s)

(***************************************************************************)
(* SpecLimits: callers that construct a JSONStreamer with the keyword      *)
(* arguments max_depth and max_string_size, with one of them or with       *)
(* neither, and feed the instance a nested text.  val is what the caller   *)
(* has chosen: the nesting of the text (shape, a sequence of "O" and "A",  *)
(* outermost first), its key and its string value, and the two keyword     *)
(* arguments (None: the argument is not passed).                           *)
(***************************************************************************)
\* deepest nesting of a text
MaxNest == 3
\* longest key and string value of a text
MaxLimStr == 2

Shapes == UNION {[1..n -> {"O", "A"}] : n \in 1..MaxNest}

LimitStrings == {[i \in 1..n |-> "a"] : n \in 1..MaxLimStr} \cup {<<"]">>}

\* a key and a string value: the same string, or one of them "a"
KeysAndValues ==
    {kv \in LimitStrings \X LimitStrings : kv[1] = kv[2] \/ <<"a">> \in {kv[1], kv[2]}}

Quoted(s) == Join3(<<"\"">>, s, <<"\"">>)

\* the containers of shape around the string v, every object with the key k
RECURSIVE Nest(_, _, _)
Nest(shape, k, v) ==
    IF shape = <<>> THEN Quoted(v)
    ELSE IF Head(shape) = "A"
    THEN Join3(<<"[">>, Nest(Tail(shape), k, v), <<"]">>)
    ELSE Join3(<<"{">> \o Quoted(k) \o <<":">>, Nest(Tail(shape), k, v), <<"}">>)

\* the root container holds what is nested in it twice
LimitDoc(shape, k, v) ==
    IF Head(shape) = "A"
    THEN Join3(<<"[">> \o Nest(Tail(shape), k, v) \o <<",">>,
               Nest(Tail(shape), k, v), <<"]">>)
    ELSE Join3(<<"{">> \o Quoted(k) \o <<":">> \o Nest(Tail(shape), k, v) \o <<",">>,
               Quoted(k) \o <<":">> \o Nest(Tail(shape), k, v), <<"}">>)

Limit(n) == {PyNone} \cup {PyInt(i) : i \in 0..n}

\* JSONStreamer(max_depth=..., max_string_size=...), an argument that is
\* None being left out.  __init__(self) has no other parameter: a call with
\* a keyword argument raises TypeError before the body of __init__ runs, so
\* that the caller has no instance, no lexer and no stack
Construct(kind, accFirst, max_depth, max_string_size) ==
    IF max_depth = PyNone /\ max_string_size = PyNone
    THEN NewParser(kind, accFirst)
    ELSE Raise([NewParser(kind, accFirst) EXCEPT !.lexer_none = TRUE,
                                                 !.stack_none = TRUE],
               Exc("TypeError", "unexpected_keyword_argument"))

InitLimits ==
    /\ val \in {[shape |-> sh, key |-> kv[1], value |-> kv[2],
                 max_depth |-> md, max_string_size |-> ms] :
                  sh \in Shapes, kv \in KeysAndValues,
                  md \in Limit(MaxNest), ms \in Limit(MaxLimStr)}
    /\ doc = LimitDoc(val.shape, val.key, val.value)
    /\ p \in {Construct("json", af, val.max_depth, val.max_string_size) :
                af \in BOOLEAN}
    /\ prev = p
    /\ pos = 0
    /\ op = "new"
    /\ chunk = <<>>
    /\ strayed = FALSE
    /\ ncloses = 0
    /\ closed_ok = FALSE
    /\ was_closed = FALSE
    /\ consumed = FALSE

\* the caller has an instance
Constructed == ~(op = "new" /\ Raised(p))

NextLimits ==
    \/ Constructed /\ FeedRest
    \/ \E k \in 1..MaxChunk : Constructed /\ FeedFirst(k)

SpecLimits == InitLimits /\ [][NextLimits]_vars

\* the whole text is handed over, or consume has raised
BodyEnded == op = "consume" /\ (pos = Len(doc) \/ Raised(p))

\* containers the JSONStreamer has announced as opened and not as closed
OpenAnnounced(evs) ==
    Count(evs, "object_start") + Count(evs, "array_start")
      - Count(evs, "object_end") - Count(evs, "array_end")

DepthError == p.exc.type = "JSONStreamerException" /\ p.exc.kind = "depth_exceeded"
SizeError == p.exc.type = "JSONStreamerException" /\ p.exc.kind = "size_exceeded"

\* C15: a JSONStreamer can be made with max_depth = N, and then its stack
\* never holds more than N entries; when the text nests deeper than N
\* consume raises the depth error on the start event that arrives with N
\* containers open, with nothing pushed and no event fired for it; when N
\* is at least the nesting of the text, or max_depth is unset, there is no
\* depth error
C15_DepthLimit ==
    /\ val.max_depth # PyNone =>
         /\ Constructed
         /\ Len(p.stack) <= val.max_depth.n
    /\ BodyEnded /\ ~SizeError =>
         IF val.max_depth # PyNone /\ Len(val.shape) > val.max_depth.n
         THEN /\ DepthError
              /\ Len(p.stack) = val.max_depth.n
              /\ OpenAnnounced(p.sevents) = val.max_depth.n
         ELSE ~DepthError

\* the string values the JSONStreamer has fired under the event name
RECURSIVE Fired(_, _)
Fired(evs, name) ==
    IF evs = <<>> THEN <<>>
    ELSE IF Head(evs).name = name
         THEN <<Head(evs).args[1].s>> \o Fired(Tail(evs), name)
         ELSE Fired(Tail(evs), name)

\* the text has a key
HasKey == \E i \in 1..Len(val.shape) : val.shape[i] = "O"

TooLong(s) == Len(s) > val.max_string_size.n

\* C16: a JSONStreamer can be made with max_string_size = M, and then a
\* text with a key or a string value of more than M characters raises the
\* size error and no event carries that string; a text whose keys and
\* string values have at most M characters raises no size error
C16_SizeLimit ==
    val.max_string_size # PyNone =>
        /\ Constructed
        /\ BodyEnded /\ ~DepthError =>
             IF (HasKey /\ TooLong(val.key)) \/ TooLong(val.value)
             THEN /\ SizeError
                  /\ \A i \in 1..Len(p.sevents) :
                        p.sevents[i].name \in {"key", "value", "element"}
                            => ~TooLong(p.sevents[i].args[1].s)
                  /\ HasKey /\ TooLong(val.key) => Fired(p.sevents, "key") = <<>>
             ELSE ~SizeError

(***************************************************************************)
(* SpecMulti: callers that feed one _Lexer two top-level values separated  *)
(* by white space, in parts of at most MaxChunk characters.                *)
(***************************************************************************)
RootTexts == { <<"{", "\"", "a", "\"", ":", "1", "}">>,
               <<"{", "}">>,
               <<"[", "1", "]">>,
               <<"[", "\"", "b", "\"", ",", "2", "]">> }

Separators == { <<" ">>, <<"\n">>, <<" ", "\n">> }

InitMulti ==
    InitCaller({"lexer"}, {Join3(a, s, b) : a \in RootTexts, s \in Separators, b \in RootTexts})

NextMulti == \E k \in 1..MaxChunk : Part(k)

SpecMulti == InitMulti /\ [][NextMulti]_vars

\* C18: when the two values are handed over, the lexer has raised nothing
\* and has fired DOC_START and DOC_END twice, once around each value, and is
\* back in the state new with started cleared
C18_MultiDocument ==
    op = "consume" /\ (pos = Len(doc) \/ Raised(p)) =>
        /\ ~Raised(p)
        /\ Count(p.levents, "DOC_START") = 2
        /\ Count(p.levents, "DOC_END") = 2
        /\ p.levents[Len(p.levents)].name = "DOC_END"
        /\ p.cur = "NEW" /\ ~p.started

(***************************************************************************)
(* SpecListen: callers that hold a JSONStreamer, an ObjectStreamer or a    *)
(* _Lexer, a catch-all listener and a listener for events.  They begin     *)
(* with calls to the listener register of the new instance, feed a text    *)
(* in parts of at most MaxChunk characters and call close(); between two   *)
(* of these calls, or after them, they make one more call to the register  *)
(* or to fire.  strayed is "this call has been made".                      *)
(***************************************************************************)
EventNames(kind) ==
    IF kind = "json"
    THEN {"doc_start", "doc_end", "object_start", "object_end", "array_start",
          "array_end", "key", "value", "element"}
    ELSE {"object_stream_start", "object_stream_end", "array_stream_start",
          "array_stream_end", "pair", "element"}

\* texts fed by the callers of SpecListen
ListenDocs == { <<"{", "\"", "a", "\"", ":", "1", "}">>,
                <<"[", "1", ",", "t", "r", "u", "e", "]">> }

\* the event names a caller passes to the register after construction, as
\* it spells them
CallerSpellings(kind) ==
    CASE kind = "json" -> {<<"K", "e", "y">>, <<"e", "l", "e", "m", "e", "n", "t">>}
      [] kind = "object" -> {<<"P", "a", "i", "r">>, <<"e", "l", "e", "m", "e", "n", "t">>}
      [] kind = "lexer" -> {<<"L", "i", "t", "e", "r", "a", "l">>}

\* the events a caller fires itself: one the instance fires too, in another
\* spelling, and one it never fires
CallerEvents(kind) ==
    CASE kind = "json" -> {"Key", "ping"}
      [] kind = "object" -> {"Pair", "ping"}
      [] kind = "lexer" -> {"Literal", "ping"}

\* the callers that register the catch-all listener and the listener for
\* one event of the instance
BothListening ==
    {NewListening(k, af, Spelled(e)) :
        k \in {"json"}, af \in BOOLEAN, e \in EventNames("json")}
    \cup {NewListening(k, af, Spelled(e)) :
            k \in {"object"}, af \in BOOLEAN, e \in EventNames("object")}

\* the callers that register nothing, the listener for events alone, or
\* the two listeners and then remove the one for events
OtherListening ==
    UNION {{NewParser(k, af),
            AddListener(NewParser(k, af), e),
            RemoveListener(NewListening(k, af, e), e)} :
              k \in {"json", "object"}, af \in BOOLEAN, e \in {<<"e", "l", "e", "m", "e", "n", "t">>}}
    \cup UNION {{NewParser("lexer", af),
                 NewListening("lexer", af, e),
                 RemoveListener(NewListening("lexer", af, e), e)} :
                   af \in BOOLEAN, e \in {<<"l", "i", "t", "e", "r", "a", "l">>}}

InitListen ==
    /\ doc \in ListenDocs
    /\ val = PyNone
    /\ p \in BothListening \cup OtherListening
    /\ prev = p
    /\ pos = 0
    /\ op = "new"
    /\ chunk = <<>>
    /\ strayed = FALSE
    /\ ncloses = 0
    /\ closed_ok = FALSE
    /\ was_closed = FALSE
    /\ consumed = FALSE

\* EventSource.fire called by the caller on the instance it holds
HeldFire(q, name, args) ==
    CASE q.kind = "object" -> OFire(q, name, args)
      [] q.kind = "json" -> JFire(q, name, args)
      [] q.kind = "lexer" -> LFire(q, name, args)

\* the caller calls a method of the listener register, or fire: q is the
\* instance after the call
ListenCall(q, method) ==
    /\ ~strayed
    /\ strayed' = TRUE
    /\ p' = q
    /\ prev' = p
    /\ op' = method
    /\ chunk' = <<>>
    /\ was_closed' = closed_ok
    /\ UNCHANGED <<doc, val, pos, ncloses, closed_ok, consumed>>

CallAddListener(e) ==
    ListenCall(AddListener([p EXCEPT !.exc = NoExc], e), "add_listener")

CallAddCatchAllListener ==
    ListenCall(AddCatchAllListener([p EXCEPT !.exc = NoExc]), "add_catch_all_listener")

CallRemoveListener(e) ==
    ListenCall(RemoveListener([p EXCEPT !.exc = NoExc], e), "remove_listener")

CallRemoveCatchAllListener ==
    ListenCall(RemoveCatchAllListener([p EXCEPT !.exc = NoExc]),
               "remove_catch_all_listener")

CallRemoveEvent(e) ==
    ListenCall(RemoveEvent([p EXCEPT !.exc = NoExc], e), "remove_event")

CallFire(name, args) ==
    ListenCall(HeldFire([p EXCEPT !.exc = NoExc], name, args), "fire")

NextListen ==
    \/ \E k \in 1..MaxChunk : Feed(k)
    \/ CallClose
    \/ \E e \in CallerSpellings(p.kind) : CallAddListener(e)
    \/ CallAddCatchAllListener
    \/ \E e \in CallerSpellings(p.kind) \cup p.register : CallRemoveListener(e)
    \/ CallRemoveCatchAllListener
    \/ \E e \in CallerSpellings(p.kind) \cup p.register : CallRemoveEvent(e)
    \/ \E n \in CallerEvents(p.kind) : CallFire(n, <<PyInt(7)>>)

SpecListen == InitListen /\ [][NextListen]_vars

\* the events the instance the caller holds has fired in the last call
NewFired ==
    CASE p.kind = "lexer" -> NewL [] p.kind = "json" -> NewS [] p.kind = "object" -> NewO

\* what the two listeners were called with in the last call
NewCaught == SubSeq(p.caught, Len(prev.caught) + 1, Len(p.caught))
NewHeard == SubSeq(p.heard, Len(prev.heard) + 1, Len(p.heard))

\* the payloads of the events of evs whose upper-cased name is in keys
RECURSIVE PayloadsOf(_, _)
PayloadsOf(evs, keys) ==
    IF evs = <<>> THEN <<>>
    ELSE IF EventUpper(Spelled(Head(evs).name)) \in keys
         THEN <<Head(evs).args>> \o PayloadsOf(Tail(evs), keys)
         ELSE PayloadsOf(Tail(evs), keys)

\* C22: in every call, the catch-all listener, when it is registered, is
\* called with every event the instance fires in that call, in order, name
\* and payload, and the listener of events with the payloads of the events
\* it is registered for, in order, and with nothing else, before the call
\* returns; a listener that is not registered is not called, and the calls
\* to the register fire nothing
C22_ListenerDelivery ==
    /\ StartsWith(p.caught, prev.caught) /\ StartsWith(p.heard, prev.heard)
    /\ NewCaught = (IF prev.catch_all THEN NewFired ELSE <<>>)
    /\ NewHeard = PayloadsOf(NewFired, prev.listen_for)
    /\ op \notin {"consume", "close", "fire"} => NewFired = <<>>

\* a listener for key has heard a and the catch-all listener three events
C22_Witness ==
    /\ p.kind = "json" /\ p.listen_for = {<<"K", "E", "Y">>}
    /\ p.heard = << <<PyStr(<<"a">>)>> >>
    /\ Len(p.caught) >= 3 /\ p.caught[3] = Ev("key", <<PyStr(<<"a">>)>>)

\* a listener for pair on an ObjectStreamer has heard the pair (a, 1)
C22_WitnessPair ==
    /\ p.kind = "object" /\ p.listen_for = {<<"P", "A", "I", "R">>}
    /\ Len(p.heard) >= 1 /\ p.heard[1] = <<PyTuple(PyStr(<<"a">>), PyInt(1))>>
    /\ Len(p.caught) >= 2

\* the catch-all listener was removed after [1, and the rest of the text is
\* fired without it
C22_WitnessRemoved ==
    /\ p.kind = "json" /\ op = "consume" /\ ~p.catch_all /\ strayed
    /\ Len(p.caught) = 3 /\ p.caught[3].name = "element"
    /\ NewFired # <<>> /\ NewCaught = <<>>

\* a listener added for Key hears the key of the text and the Key the
\* caller fires
C22_WitnessSpelling ==
    /\ p.kind = "json" /\ op = "fire" /\ <<"K", "E", "Y">> \in prev.listen_for
    /\ NewFired = <<Ev("Key", <<PyInt(7)>>)>> /\ NewHeard = << <<PyInt(7)>> >>

\* a _Lexer whose holder fires Literal: the listener for literal hears it
\* after the literal of the text
C22_WitnessLexer ==
    /\ p.kind = "lexer" /\ op = "fire"
    /\ NewFired = <<Ev("Literal", <<PyInt(7)>>)>>
    /\ Len(p.heard) = 2 /\ p.heard[2] = <<PyInt(7)>>
    /\ p.caught[Len(p.caught)] = Ev("Literal", <<PyInt(7)>>)

(***************************************************************************)
(* Tape (tape.py).  A tape is a record: buffer is _buffer, returned the    *)
(* value the last call returned, taken the concatenation of all that read  *)
(* has returned.  SpecTape: a caller holds one tape p, made with an        *)
(* initial value, and calls write and read on it; doc is the initial value *)
(* followed by all that was written, chunk the argument of the last call.  *)
(***************************************************************************)
\* Tape.__init__(initial_value)
NewTape(initial_value) ==
    [kind |-> "tape", buffer |-> initial_value, returned |-> PyNone, taken |-> <<>>]

\* s[0:size] and s[size:] of a str, for an int size
SliceTo(s, size) ==
    IF size >= 0 THEN SubSeq(s, 1, IF size < Len(s) THEN size ELSE Len(s))
    ELSE SubSeq(s, 1, Len(s) + size)
SliceFrom(s, size) ==
    IF size >= 0 THEN SubSeq(s, size + 1, Len(s))
    ELSE SubSeq(s, (IF Len(s) + size > 0 THEN Len(s) + size ELSE 0) + 1, Len(s))

\* Tape.read that leaves what it returns in the buffer
TapeRead_keeps_buffer(t, size) ==
    IF size # PyNone /\ size.n # 0
    THEN [t EXCEPT !.returned = PyStr(SliceTo(t.buffer, size.n)),
                   !.taken = @ \o SliceTo(t.buffer, size.n)]
    ELSE [t EXCEPT !.buffer = <<>>, !.returned = PyStr(t.buffer),
                   !.taken = @ \o t.buffer]

\* Tape.read(size): "if size:" is false for None and for 0
TapeRead(t, size) ==
    IF size # PyNone /\ size.n # 0
    THEN [t EXCEPT !.buffer = SliceFrom(t.buffer, size.n),
                   !.returned = PyStr(SliceTo(t.buffer, size.n)),
                   !.taken = @ \o SliceTo(t.buffer, size.n)]
    ELSE [t EXCEPT !.buffer = <<>>, !.returned = PyStr(t.buffer),
                   !.taken = @ \o t.buffer]

\* Tape.write(s)
TapeWrite(t, s) == [t EXCEPT !.buffer = @ \o s, !.returned = PyInt(Len(s))]

\* Tape.__len__
TapeLen(t) == Len(t.buffer)

\* most characters a caller hands to a tape, initial value included
MaxTape == 4
\* longest string of one write, and largest size of one read
MaxWrite == 2

TapeAlphabet == {"a", "b"}

TapeStrings(n) == UNION {[1..k -> TapeAlphabet] : k \in 0..n}

\* the sizes a caller reads with: None, and the ints from -2 on
ReadSizes == {PyNone} \cup {PyInt(n) : n \in -2..(MaxWrite + 1)}

InitTape ==
    /\ doc \in TapeStrings(MaxWrite)
    /\ p = NewTape(doc)
    /\ prev = p
    /\ val = PyNone
    /\ pos = 0
    /\ op = "new"
    /\ chunk = <<>>
    /\ strayed = FALSE
    /\ ncloses = 0
    /\ closed_ok = FALSE
    /\ was_closed = FALSE
    /\ consumed = FALSE

\* the caller calls write(s)
CallWrite(s) ==
    /\ Len(doc) + Len(s) <= MaxTape
    /\ p' = TapeWrite(p, s)
    /\ prev' = p
    /\ op' = "write"
    /\ chunk' = s
    /\ doc' = doc \o s
    /\ UNCHANGED <<val, pos, strayed, ncloses, closed_ok, was_closed, consumed>>

\* the caller calls read(size), or read() when size is None
CallRead(size) ==
    /\ p' = TapeRead(p, size)
    /\ prev' = p
    /\ op' = "read"
    /\ val' = size
    /\ UNCHANGED <<doc, chunk, pos, strayed, ncloses, closed_ok, was_closed, consumed>>

NextTape ==
    \/ \E s \in TapeStrings(MaxWrite) : CallWrite(s)
    \/ \E size \in ReadSizes : CallRead(size)

SpecTape == InitTape /\ [][NextTape]_vars

\* C24: all that read has returned, followed by the buffer, is the initial
\* value followed by all that was written; a read takes from the front and
\* a write adds at the end; len(tape) is the characters handed over less
\* the characters read
C24_TapeFifo ==
    /\ p.taken \o p.buffer = doc
    /\ op = "read" => /\ p.returned.s \o p.buffer = prev.buffer
                      /\ p.taken = prev.taken \o p.returned.s
    /\ op = "write" => /\ p.buffer = prev.buffer \o chunk
                       /\ p.taken = prev.taken
                       /\ p.returned = PyInt(Len(chunk))
    /\ TapeLen(p) = Len(doc) - Len(p.taken)

\* Tape('a'); read(1); write('ba'); read(2): 'a' then 'ba' were read
C24_Witness ==
    /\ op = "read" /\ val = PyInt(2)
    /\ p.taken = <<"a", "b", "a">> /\ p.buffer = <<>>
    /\ prev.taken = <<"a">>

\* the first n characters of s, all of s when it has fewer
FirstChars(s, n) == SubSeq(s, 1, IF n < Len(s) THEN n ELSE Len(s))

\* C25: read(size) with an int size >= 0 returns the first min(size, len)
\* characters of the buffer and leaves the rest; read() returns the whole
\* buffer and leaves it empty
C25_TapeRead ==
    op = "read" =>
        IF val = PyNone
        THEN p.returned = PyStr(prev.buffer) /\ p.buffer = <<>>
        ELSE val.n >= 0 =>
               /\ p.returned = PyStr(FirstChars(prev.buffer, val.n))
               /\ p.buffer = SubSeq(prev.buffer, Len(p.returned.s) + 1, Len(prev.buffer))

(***************************************************************************)
(* SpecLexer: the callers of Spec holding a _Lexer itself.                 *)
(***************************************************************************)
InitLexer == InitCaller({"lexer"}, Docs)

SpecLexer == InitLexer /\ [][Next]_vars

\* C28: a consume call on a _Lexer whose close() has returned raises and
\* processes nothing, whatever was called before that close
C28_LexerConsumeAfterClose ==
    (op = "consume" /\ was_closed) =>
        /\ Raised(p)
        /\ NewL = <<>>
        /\ p.cur = prev.cur /\ p.acc = prev.acc

(***************************************************************************)
(* SpecDeep: callers that hand an ObjectStreamer a deeply nested text one  *)
(* character at a time, with at most one stray character.                  *)
(***************************************************************************)
\* {"a":{"b":[[]]}}   {"a":{"b":{"c":[1]}}}   {"a":[[1],{"b":[]}]}
\* [{"a":{"b":2}}]    [[{"a":[2]}],3]
DeepDocs ==
    { <<"{", "\"", "a", "\"", ":", "{", "\"", "b", "\"", ":", "[", "[", "]", "]", "}", "}">>,
      <<"{", "\"", "a", "\"", ":", "{", "\"", "b", "\"", ":", "{", "\"", "c", "\"", ":",
        "[", "1", "]", "}", "}", "}">>,
      <<"{", "\"", "a", "\"", ":", "[", "[", "1", "]", ",", "{", "\"", "b", "\"", ":",
        "[", "]", "}", "]", "}">>,
      <<"[", "{", "\"", "a", "\"", ":", "{", "\"", "b", "\"", ":", "2", "}", "}", "]">>,
      <<"[", "[", "{", "\"", "a", "\"", ":", "[", "2", "]", "}", "]", ",", "3", "]">> }

InitDeep == InitCaller({"object"}, DeepDocs)

NextDeep ==
    \/ Feed(1)
    \/ \E c \in Alphabet : Stray(c)

SpecDeep == InitDeep /\ [][NextDeep]_vars

\* the last call handed the ObjectStreamer one character that ended a
\* nested container: _process_deep_entities ran and returned
Finished ==
    /\ p.kind = "object" /\ op = "consume" /\ Len(chunk) = 1
    /\ NewS # <<>> /\ NewS[Len(NewS)].name \in {"object_end", "array_end"}
    /\ prev.obj_stack # <<>>
    /\ ~Raised(p)

\* the literal the closing character delivered before the end event
LastLiteral == IF Len(NewS) = 2 THEN NewS[1] ELSE Ev("", <<>>)

\* _key_stack when the end event arrived
KeysAtEnd ==
    CASE LastLiteral.name = "value" -> Pop(prev.key_stack)
      [] LastLiteral.name = "key" -> Append(prev.key_stack, LastLiteral.args[1])
      [] OTHER -> prev.key_stack

\* the container that finished
FinishedContainer ==
    CASE LastLiteral.name = "value" ->
             DictSet(Top(prev.obj_stack), Top(prev.key_stack), LastLiteral.args[1])
      [] LastLiteral.name = "element" -> ListAppend(Top(prev.obj_stack), LastLiteral.args[1])
      [] OTHER -> Top(prev.obj_stack)

\* the containers left on _obj_stack, the parent on top
Parents == Pop(prev.obj_stack)

\* the finished container was appended to the parent list, no key taken
AppendedToParent ==
    /\ p.obj_stack = SetTop(Parents, ListAppend(Top(Parents), FinishedContainer))
    /\ p.key_stack = KeysAtEnd

\* the finished container was assigned in the parent map under the last key
AssignedInParent ==
    /\ p.obj_stack = SetTop(Parents, DictSet(Top(Parents), Top(KeysAtEnd), FinishedContainer))
    /\ p.key_stack = Pop(KeysAtEnd)

\* C33 as stated: with more than one key pending the parent is a map, and
\* the finished container is assigned in it under the key popped
C33_DeepKeysAssign ==
    Finished /\ Len(KeysAtEnd) > 1 =>
        /\ Parents # <<>> /\ Top(Parents).t = "dict"
        /\ AssignedInParent

\* C33: with more than one key pending, a finished container is appended
\* to the parent when it is a list, leaving every key pending, and assigned
\* under the key popped when it is a map
C33_DeepKeysByParent ==
    Finished /\ Len(KeysAtEnd) > 1 =>
        /\ Parents # <<>>
        /\ IF Top(Parents).t = "list" THEN AppendedToParent ELSE AssignedInParent

\* in {"a":{"b":[[]]}} the inner list went into the outer one, a and b pending
C33_Witness ==
    /\ Finished /\ Len(KeysAtEnd) = 2 /\ Parents # <<>>
    /\ Top(Parents).t = "list"
    /\ p.obj_stack = <<PyDict(<<>>), PyList(<<PyList(<<>>)>>)>>
    /\ Len(p.key_stack) = 2

\* a container assigned under the last of several keys
C33_WitnessMap ==
    /\ Finished /\ Len(KeysAtEnd) > 1 /\ Parents # <<>>
    /\ Top(Parents).t = "dict" /\ Len(p.key_stack) = Len(KeysAtEnd) - 1

\* C34: with exactly one key pending and a parent on the stack, a finished
\* container is appended to the parent when it is a list, leaving the key
\* pending, and assigned under the key, which is popped, when it is a map
C34_OneKeyByParent ==
    Finished /\ Len(KeysAtEnd) = 1 /\ Parents # <<>> =>
        IF Top(Parents).t = "list" THEN AppendedToParent ELSE AssignedInParent

\* in {"a":[[1],{"b":[]}]} the map {"b":[]} went into the list after [1]
C34_Witness ==
    /\ Finished /\ Len(KeysAtEnd) = 1 /\ Parents # <<>>
    /\ Top(Parents).t = "list" /\ Len(Top(Parents).items) = 1
    /\ p.key_stack = <<PyStr(<<"a">>)>>
    /\ Len(Top(p.obj_stack).items) = 2

\* in [{"a":{"b":2}}] the map {"b":2} was assigned under a
C34_WitnessMap ==
    /\ Finished /\ Len(KeysAtEnd) = 1 /\ Parents # <<>>
    /\ Top(Parents).t = "dict" /\ p.key_stack = <<>>
    /\ Len(p.obj_stack) = 1

(***************************************************************************)
(* SpecSpace: callers whose text is a text of ChunkDocs with spaces or     *)
(* newlines put in between its tokens; val is the text without them.       *)
(***************************************************************************)
\* most places of one text where whitespace is put in
MaxGaps == 2

\* the whitespace put in at one place
SpaceRuns == { <<" ">>, <<"\n", " ">> }

\* the characters of d up to the i-th hold an odd number of unescaped "
InsideString(d, i) ==
    Cardinality({j \in 1..i : d[j] = "\"" /\ (j = 1 \/ d[j - 1] # "\\")}) % 2 = 1

\* a character of a bare literal
LiteralChar(c) == TokenName(c) = "char"

\* the places between the tokens of d: after i characters, outside a string
\* and not inside a bare literal
Gaps(d) ==
    {i \in 0..Len(d) :
        /\ ~InsideString(d, i)
        /\ ~(i >= 1 /\ i < Len(d) /\ LiteralChar(d[i]) /\ LiteralChar(d[i + 1]))}

\* d with w put in at every place of I, from place i on
RECURSIVE Spaced(_, _, _, _)
Spaced(d, I, w, i) ==
    IF i > Len(d) THEN <<>>
    ELSE Join3(IF i = 0 THEN <<>> ELSE <<d[i]>>,
               IF i \in I THEN w ELSE <<>>,
               Spaced(d, I, w, i + 1))

InitSpace ==
    /\ \E d \in ChunkDocs, w \in SpaceRuns :
         \E I \in SUBSET Gaps(d) :
            /\ Cardinality(I) \in 1..MaxGaps
            /\ val = PyStr(d)
            /\ doc = Spaced(d, I, w, 0)
    /\ InitCall({"lexer", "object"})

NextSpace == \E k \in 1..MaxChunk : Part(k)

SpecSpace == InitSpace /\ [][NextSpace]_vars

\* a space or a newline arrives alone when the lexer is not in a string
SpaceOutsideString ==
    /\ OneToken /\ Token \in {"WHITESPACE", "NEWLINE"}
    /\ prev.cur \notin {"STRING_START", "STRING_ESCAPING"}

\* C35: a text with spaces and newlines put in between its tokens makes
\* every layer fire the events, names and payloads, of the text without
\* them and ends the same way; outside a string a space or a newline
\* leaves the lexer in its state and fires nothing
C35_WhitespaceInsensitive ==
    /\ op = "consume" /\ (pos = Len(doc) \/ Raised(p)) =>
          \A af \in BOOLEAN : Outcome(p) = Outcome(Consume(NewParser(p.kind, af), val.s))
    /\ SpaceOutsideString =>
          /\ ~Raised(p)
          /\ p.cur = prev.cur
          /\ NewL = <<>> /\ NewS = <<>> /\ NewO = <<>>

\* [ "ab" ] was read as ["ab"]: the spaces around the string are gone
C35_Witness ==
    /\ op = "consume" /\ pos = Len(doc) /\ ~Raised(p)
    /\ val = PyStr(<<"[", "\"", "a", "b", "\"", "]">>)
    /\ Len(doc) = Len(val.s) + 2
    /\ p.kind = "object"
    /\ p.oevents = <<Ev("array_stream_start", <<>>),
                    Ev("element", <<PyStr(<<"a", "b">>)>>),
                    Ev("array_stream_end", <<>>)>>

\* a newline alone was skipped after a literal had begun
C35_WitnessLiteral ==
    /\ SpaceOutsideString /\ Token = "NEWLINE"
    /\ prev.cur = "LITERAL" /\ p.cur = "LITERAL"

\* the last call made the ObjectStreamer fire the end of its root stream,
\* and the caller has handed over nothing but its well-formed text
StreamEnded ==
    /\ p.kind = "object" /\ op = "consume" /\ ~strayed
    /\ NewO # <<>>
    /\ NewO[Len(NewO)].name \in {"object_stream_end", "array_stream_end"}

\* C40: when the ObjectStreamer fires object_stream_end or array_stream_end
\* for a well-formed text, no key and no nested container is left on its
\* stacks, and the end is fired by the last character of the text
C40_StacksEmptyAtEnd ==
    StreamEnded =>
        /\ p.key_stack = <<>>
        /\ p.obj_stack = <<>>
        /\ pos = Len(doc)

\* {"a":{"b":{"c":[1]}}} ended with empty stacks after three keys and three
\* nested containers
C40_Witness ==
    /\ StreamEnded /\ p.key_stack = <<>> /\ p.obj_stack = <<>>
    /\ Count(p.sevents, "key") = 3
    /\ Count(p.sevents, "object_start") = 3 /\ Count(p.sevents, "array_start") = 1
    /\ NewO[Len(NewO)].name = "object_stream_end"

====
